---- MODULE Spec2Model ----
(***************************************************************************)
(* Thumbnail cache, generation gate and recently-played list of the        *)
(* mpv-launcher command (src/unnamed/part_000), with the background checks *)
(* of the last-played list of the variant src/src/mpv-launcher.tsx.        *)
(*                                                                         *)
(* The command is a React component.  Its handlers are asynchronous        *)
(* functions running on one thread; every action below is one              *)
(* uninterrupted stretch of a handler, from one await to the next.         *)
(* React state (folders, lastPlayed, thumbnails, isLoading) is written by  *)
(* the setters; the closures of the handlers read the values of the render *)
(* in which they were created (r* and a* below).                           *)
(***************************************************************************)
EXTENDS Integers, Sequences, FiniteSets, Bags, TLC

(***************************************************************************)
(* Bounds of the model.                                                    *)
(***************************************************************************)
NumPaths == 6            \* folder paths that can occur anywhere
GateFolders == 4         \* folders on disk in the gate scenario
SessionFolders == 2      \* folders on disk in the cache, delete, recents and load scenarios
MaxAdds == 1             \* videos added to the folders in one run
MaxPendingWrites == 1    \* writes of the thumbnails blob in flight
MaxUserActions == 2      \* plays and deletes the user triggers in one run
MaxSyncs == 1            \* background tasks in one run
MaxCounted == 2          \* generation processes counted per output file

(***************************************************************************)
(* Program constants.                                                      *)
(***************************************************************************)
MaxActiveGenerations == 3    \* if (activeGenerations >= 3)
MaxLastPlayed == 5           \* .slice(0, 5)
MaxConcurrent == 2           \* ThumbnailQueue.maxConcurrent (mpv-launcher.tsx)

None == 0
Paths == 1..NumPaths

\* versions of a folder's representative video: the first one and the added ones
MaxVideo == MaxAdds + 1

\* join(path, first): the representative video file of folder p, version v
VideoFile(p, v) == <<p, v>>

\* createHash("md5").update(file).digest("hex"): distinct files, distinct digests
Md5(file) == file[1] * (MaxVideo + 1) + file[2]

\* join(thumbnailCachePath, `${hash}.jpg`)
ThumbnailPathOf(file) == Md5(file)

ThumbPaths == {ThumbnailPathOf(VideoFile(p, v)) : p \in Paths, v \in 1..MaxVideo}

\* Record<string, string>: None where the key is absent
ThumbMaps == [Paths -> ThumbPaths \cup {None}]
EmptyThumbs == [p \in Paths |-> None]

VARIABLES
    \* the file system
    diskFolders,          \* title folders that exist
    repFile,              \* repFile[p]: version of p's first video file, None if it has none
    unreadableRoots,      \* categories whose configured directory cannot be read
    thumbFiles,           \* thumbnail files that exist in thumbnailCachePath
    \* LocalStorage
    lsThumbs,             \* the record under THUMBNAILS_CACHE_KEY
    lsLastPlayed,         \* the record under LAST_PLAYED_KEY
    blobWrites,           \* writes of the thumbnails record in flight, oldest first
    lastWrites,           \* writes of the last-played record in flight, with what awaits them
    \* React state of Command
    folders,
    lastPlayed,
    thumbnails,
    isLoading,
    \* the last render and the closures it created
    rFolders,
    rLastPlayed,
    rThumbnails,          \* thumbnails seen by checkThumbnail and the grid items
    aThumbnails,          \* thumbnails seen by play/deleteTitleFolder inside titleActions
    renderPending,        \* a setter ran since the last render
    actionsStale,         \* setFolders or setLastPlayed ran since the last render
    \* module-level state
    processingThumbnails,
    activeGenerations,
    \* handlers in progress
    loadPc,               \* the initial load effect
    checks,               \* bag of checkThumbnail invocations past their admission
    plays,                \* bag of play invocations awaiting getTitleInfo
    deletes,              \* bag of deleteTitleFolder invocations
    \* what the user saw
    lastVisible,          \* how the last visibility event ended
    toasts,               \* the last toast shown
    scanErrors,           \* categories for which the scan has shown its failure toast
    windowClosed,         \* closeMainWindow() was called and the window not reopened
    mpvLaunches,          \* folders for which mpv was spawned
    nActions,             \* plays and deletes triggered so far
    nAdds,                \* videos added so far
    nSyncs,               \* background tasks run so far
    genStarted,           \* history: generation processes started, per output file observed
    genSucceeded,         \* history: output files of the generations that succeeded
    deletedThumbs,        \* history: map entries of the folders at the time they were deleted
    genOutcome,           \* history: how the last generation ended, per output file observed
    saveFailure,          \* history: what became of the last rejected write of the thumbnails blob
    lateEvent,            \* per output file observed: the event of its last settled run still to arrive
    \* mpv-launcher.tsx: visibleItemsRef and the fields of ThumbnailQueue
    visibleItems,
    queue,
    processing,
    processingPaths

diskVars == <<diskFolders, repFile, unreadableRoots, thumbFiles>>
storeVars == <<lsThumbs, lsLastPlayed, blobWrites, lastWrites>>
stateVars == <<folders, lastPlayed, thumbnails, isLoading>>
renderVars == <<rFolders, rLastPlayed, rThumbnails, aThumbnails, renderPending, actionsStale>>
gateVars == <<processingThumbnails, activeGenerations>>
callVars == <<loadPc, checks, plays, deletes>>
queueVars == <<visibleItems, queue, processing, processingPaths>>
userVars == <<lastVisible, toasts, scanErrors, windowClosed, mpvLaunches, nActions, nAdds>>

histVars == <<genStarted, genSucceeded, deletedThumbs, nSyncs, genOutcome, saveFailure,
              lateEvent>>

vars == <<diskVars, storeVars, stateVars, renderVars, gateVars, callVars, userVars,
          histVars, queueVars>>


(***************************************************************************)
(* LocalStorage records.                                                   *)
(***************************************************************************)
\* JSON.stringify({ thumbnails: thumbnailsData, lastUpdated: Date.now() })
ThumbsRecord(data) == [kind |-> "ok", map |-> data]
\* no item under the key, a string JSON.parse rejects, JSON without .thumbnails
AbsentThumbs == [kind |-> "absent", map |-> EmptyThumbs]
CorruptThumbs == [kind |-> "corrupt", map |-> EmptyThumbs]
NoMapThumbs == [kind |-> "nomap", map |-> EmptyThumbs]

\* JSON.stringify(updatedLastPlayed)
LastPlayedRecord(list) == [kind |-> "ok", list |-> list]
AbsentLastPlayed == [kind |-> "absent", list |-> <<>>]

(***************************************************************************)
(* Pure helpers.                                                           *)
(***************************************************************************)
\* list.filter((item) => item.path !== path)
RECURSIVE WithoutPath(_, _)
WithoutPath(list, path) ==
    IF list = <<>> THEN <<>>
    ELSE IF Head(list) = path THEN WithoutPath(Tail(list), path)
         ELSE <<Head(list)>> \o WithoutPath(Tail(list), path)

\* list.slice(0, n)
Slice(list, n) == SubSeq(list, 1, IF Len(list) < n THEN Len(list) ELSE n)

\* the update without its slice
UpdatedLastPlayedNoSlice(list, path) == <<path>> \o WithoutPath(list, path)

\* [folder, ...lastPlayed.filter(...)].slice(0, 5)
UpdatedLastPlayed(list, path) ==
    Slice(<<path>> \o WithoutPath(list, path), MaxLastPlayed)

\* the entries of the stored mapping whose file exists (existsSync)
ValidThumbnails(map) ==
    [p \in Paths |-> IF map[p] # None /\ map[p] \in thumbFiles THEN map[p] ELSE None]

\* getTitleInfo(path).file: the version of the folder's first video, None
\* when the folder has no video or cannot be read (the file is VideoFile(p, v))
TitleInfoFile(p) ==
    IF p \in diskFolders THEN repFile[p] ELSE None

\* prev => ({ ...prev, [path]: thumbnailPath })
WithThumbnail(prev, p, tp) == [prev EXCEPT ![p] = tp]
\* prev => { const updated = { ...prev }; delete updated[path]; ... }
WithoutThumbnail(prev, p) == [prev EXCEPT ![p] = None]

\* a save that writes nothing
saveThumbnailsCacheSkipped(data) == UNCHANGED <<lsThumbs, blobWrites>>

(***************************************************************************)
(* saveThumbnailsCache: the write is issued and not awaited.  Writes reach *)
(* the store in the order they were issued.                                *)
(***************************************************************************)
saveThumbnailsCache(data) ==
    LET q == Append(blobWrites, data) IN
    IF Len(q) > MaxPendingWrites
    THEN /\ lsThumbs' = ThumbsRecord(Head(q))
         /\ blobWrites' = Tail(q)
    ELSE /\ blobWrites' = q
         /\ UNCHANGED lsThumbs

\* an update that saves the mapping it started from
SetThumbnailsSaveStale(updated) ==
    /\ thumbnails' = updated
    /\ saveThumbnailsCache(thumbnails)
    /\ renderPending' = TRUE

\* setThumbnails((prev) => { const updated = f(prev); saveThumbnailsCache(updated); return updated; })
SetThumbnailsAndSave(updated) ==
    /\ thumbnails' = updated
    /\ saveThumbnailsCache(updated)
    /\ renderPending' = TRUE

BlobWriteDone ==
    /\ blobWrites # <<>>
    /\ lsThumbs' = ThumbsRecord(Head(blobWrites))
    /\ blobWrites' = Tail(blobWrites)
    /\ UNCHANGED <<diskVars, lsLastPlayed, lastWrites, stateVars, renderVars,
                   gateVars, callVars, userVars>>
    /\ UNCHANGED histVars
    /\ UNCHANGED queueVars

\* LocalStorage.setItem rejects: saveThumbnailsCache has no catch and its
\* callers drop the promise it returns, so the rejection is left unhandled
\* and nothing is logged; the stored record keeps its value
SaveThumbnailsCacheRejected ==
    /\ blobWrites # <<>>
    /\ blobWrites' = Tail(blobWrites)
    /\ saveFailure' = "unhandled"
    /\ UNCHANGED lateEvent
    /\ UNCHANGED <<diskVars, lsThumbs, lsLastPlayed, lastWrites, stateVars, renderVars,
                   gateVars, callVars, userVars>>
    /\ UNCHANGED <<genStarted, genSucceeded, deletedThumbs, nSyncs, genOutcome>>
    /\ UNCHANGED queueVars

(***************************************************************************)
(* The initial load effect.                                                *)
(***************************************************************************)
\* JSON.parse(thumbnailsJson) or Object.entries(cache.thumbnails) throws
LoadThrows == lsThumbs.kind \in {"corrupt", "nomap"}

LoadStored ==
    /\ loadPc = "start"
    /\ lastPlayed' = IF lsLastPlayed.kind = "ok" THEN lsLastPlayed.list ELSE lastPlayed
    /\ actionsStale' = (actionsStale \/ lsLastPlayed.kind = "ok")
    /\ thumbnails' = IF lsThumbs.kind = "ok" THEN ValidThumbnails(lsThumbs.map)
                     ELSE thumbnails
    /\ renderPending' = (renderPending \/ lsLastPlayed.kind = "ok" \/ lsThumbs.kind = "ok")
    /\ loadPc' = IF LoadThrows THEN "crashed" ELSE "scan"
    /\ UNCHANGED <<diskVars, storeVars, folders, isLoading, rFolders, rLastPlayed,
                   rThumbnails, aThumbnails, gateVars, checks, plays, deletes, userVars>>
    /\ UNCHANGED histVars
    /\ UNCHANGED queueVars

\* the three configured directories, and the one a title folder lies in
Categories == {"anime", "series", "film"}
Category(p) == CASE p % 3 = 1 -> "anime" [] p % 3 = 2 -> "series" [] OTHER -> "film"

\* every configured directory can be read
AllRootsReadable == unreadableRoots = {}

\* loadFoldersFromDirectory(directory, type): the title folders of the
\* directory, or [] after the failure toast when readdir rejects
loadFoldersFromDirectory(type) ==
    IF type \in unreadableRoots THEN {}
    ELSE {p \in diskFolders : Category(p) = type}

\* the catch branches of loadFoldersFromDirectory: showToast per category
ReportScanErrors ==
    /\ scanErrors' = scanErrors \cup unreadableRoots
    /\ toasts' = IF unreadableRoots = {} THEN toasts ELSE "loadError"

\* a scan that returns nothing as soon as one directory cannot be read
loadFreshFoldersAllOrNothing == IF unreadableRoots = {} THEN diskFolders ELSE {}

\* loadFreshFolders(): the title folders found in the three directories
loadFreshFolders == UNION {loadFoldersFromDirectory(type) : type \in Categories}

LoadFolders ==
    /\ loadPc = "scan"
    /\ folders' = loadFreshFolders
    /\ isLoading' = FALSE
    /\ loadPc' = "done"
    /\ renderPending' = TRUE
    /\ actionsStale' = TRUE
    /\ ReportScanErrors
    /\ UNCHANGED <<diskVars, storeVars, lastPlayed, thumbnails, rFolders, rLastPlayed,
                   rThumbnails, aThumbnails, gateVars, checks, plays, deletes,
                   lastVisible, windowClosed, mpvLaunches, nActions, nAdds>>
    /\ UNCHANGED histVars
    /\ UNCHANGED queueVars

(***************************************************************************)
(* A render: the closures see the state of this render.  titleActions is   *)
(* memoised on [folders, lastPlayed], so play and deleteTitleFolder keep   *)
(* the thumbnails of the last render in which one of those two changed.    *)
(***************************************************************************)
\* a render that stores sortedLastPlayed back into the state
RenderStoresSortedLastPlayed ==
    /\ renderPending
    /\ rFolders' = folders
    /\ rLastPlayed' = SelectSeq(lastPlayed, LAMBDA p : p \in folders)
    /\ lastPlayed' = SelectSeq(lastPlayed, LAMBDA p : p \in folders)
    /\ rThumbnails' = thumbnails
    /\ aThumbnails' = IF actionsStale THEN thumbnails ELSE aThumbnails
    /\ renderPending' = FALSE
    /\ actionsStale' = FALSE
    /\ UNCHANGED <<diskVars, storeVars, folders, thumbnails, isLoading, gateVars,
                   callVars, userVars>>
    /\ UNCHANGED histVars
    /\ UNCHANGED queueVars

Render ==
    /\ renderPending
    /\ rFolders' = folders
    /\ rLastPlayed' = lastPlayed
    /\ rThumbnails' = thumbnails
    /\ aThumbnails' = IF actionsStale THEN thumbnails ELSE aThumbnails
    /\ renderPending' = FALSE
    /\ actionsStale' = FALSE
    /\ UNCHANGED <<diskVars, storeVars, stateVars, gateVars, callVars, userVars>>
    /\ UNCHANGED histVars
    /\ UNCHANGED queueVars


(***************************************************************************)
(* checkThumbnail.                                                         *)
(***************************************************************************)
AddCall(bag, c) == bag (+) SetToBag({c})
DropCall(bag, c) == bag (-) SetToBag({c})
CallsIn(bag) == BagToSet(bag)

\* the guard without its in-flight test
AlreadyHandledNoInflight(p) == rThumbnails[p] # None

\* if (thumbnails[path] || processingThumbnails.has(path)) return;
AlreadyHandled(p) == rThumbnails[p] # None \/ p \in processingThumbnails

\* no ceiling test
QueueFullNever == FALSE

\* the ceiling test off by one
QueueFullOffByOne == activeGenerations > MaxActiveGenerations

\* if (activeGenerations >= 3) { ...; return; }
QueueFull == activeGenerations >= MaxActiveGenerations

\* processingThumbnails.add(path); activeGenerations++;
Acquire(p) ==
    /\ processingThumbnails' = processingThumbnails \cup {p}
    /\ activeGenerations' = activeGenerations + 1

\* a release that forgets the counter
ReleaseMarkerOnly(p) ==
    /\ processingThumbnails' = processingThumbnails \ {p}
    /\ activeGenerations' = activeGenerations

\* processingThumbnails.delete(path); activeGenerations--;
Release(p) ==
    /\ processingThumbnails' = processingThumbnails \ {p}
    /\ activeGenerations' = activeGenerations - 1

\* how a visibility event ended, where the scenario records it
Seen(result) == IF lastVisible = "off" THEN "off" ELSE result

\* A grid item of folder p mounts: its effect runs
\*   if (!thumbnails[folder.path]) checkThumbnail(folder.path)
\* and checkThumbnail runs up to its first await.
Visible(p) ==
    /\ p \in rFolders
    /\ IF rThumbnails[p] # None
       THEN /\ lastVisible' = Seen("cached")
            /\ UNCHANGED <<gateVars, checks>>
       ELSE IF AlreadyHandled(p)
       THEN /\ lastVisible' = Seen("skipped")
            /\ UNCHANGED <<gateVars, checks>>
       ELSE IF QueueFull
       THEN /\ lastVisible' = Seen("full")
            /\ UNCHANGED <<gateVars, checks>>
       ELSE /\ lastVisible' = Seen("admitted")
            /\ Acquire(p)
            /\ checks' = AddCall(checks, [path |-> p, pc |-> "info", file |-> None])
    /\ UNCHANGED <<diskVars, storeVars, stateVars, renderVars, loadPc, plays, deletes,
                   toasts, scanErrors, windowClosed, mpvLaunches, nActions, nAdds>>
    /\ UNCHANGED histVars
    /\ UNCHANGED queueVars

\* history: a generation process that writes file f is started
CountStart(f) ==
    IF f \in DOMAIN genStarted
    THEN [genStarted EXCEPT ![f] = IF @ < MaxCounted THEN @ + 1 ELSE @]
    ELSE genStarted

\* history: the generation that writes file f has ended with outcome o
RecordOutcome(f, o) ==
    IF f \in DOMAIN genOutcome THEN [genOutcome EXCEPT ![f] = o] ELSE genOutcome

\* no event of a settled run is outstanding
NoLateEvent == [kind |-> "none", path |-> None]

\* the run of ffmpeg that writes file f for folder p has settled its
\* promise: the close event of the killed process, or the 10 s timer that
\* is never cleared, is still to arrive
RecordLate(f, kind, p) ==
    IF f \in DOMAIN lateEvent THEN [lateEvent EXCEPT ![f] = [kind |-> kind, path |-> p]]
    ELSE lateEvent

\* history: the generation that writes file f has succeeded
RecordSuccess(f) ==
    IF f \in DOMAIN genStarted THEN genSucceeded \cup {f} ELSE genSucceeded

\* const titleInfo = await getTitleInfo(path) has resolved; checkThumbnail
\* runs up to the await of generateThumbnail, or returns.
GetTitleInfoDone(c) ==
    /\ c \in CallsIn(checks)
    /\ c.pc = "info"
    /\ LET file == TitleInfoFile(c.path) IN
       IF file = None
       THEN /\ Release(c.path)
            /\ checks' = DropCall(checks, c)
            /\ UNCHANGED <<thumbnails, lsThumbs, blobWrites, renderPending, genStarted>>
       ELSE IF ThumbnailPathOf(VideoFile(c.path, file)) \in thumbFiles
       THEN /\ SetThumbnailsAndSave(WithThumbnail(thumbnails, c.path,
                                        ThumbnailPathOf(VideoFile(c.path, file))))
            /\ Release(c.path)
            /\ checks' = DropCall(checks, c)
            /\ UNCHANGED genStarted
       ELSE /\ checks' = AddCall(DropCall(checks, c), [c EXCEPT !.pc = "gen", !.file = file])
            /\ genStarted' = CountStart(ThumbnailPathOf(VideoFile(c.path, file)))
            /\ UNCHANGED <<gateVars, thumbnails, lsThumbs, blobWrites, renderPending>>
    /\ UNCHANGED <<diskVars, lsLastPlayed, lastWrites, folders, lastPlayed, isLoading,
                   rFolders, rLastPlayed, rThumbnails, aThumbnails, actionsStale,
                   loadPc, plays, deletes, userVars, genSucceeded, deletedThumbs, nSyncs,
                   genOutcome, saveFailure, lateEvent>>
    /\ UNCHANGED queueVars

\* the ffmpeg process leaves its output file behind (wrote) or not
OutputAfter(c, wrote) ==
    IF wrote THEN thumbFiles \cup {ThumbnailPathOf(VideoFile(c.path, c.file))}
    ELSE thumbFiles

\* the close handler without its existsSync test
GenerationSucceededCodeOnly(c, code, files) == code = 0

\* ffmpeg.on("close", (code) => { if (code === 0 && existsSync(thumbnailPath)) resolve() ... })
GenerationSucceeded(c, code, files) ==
    code = 0 /\ ThumbnailPathOf(VideoFile(c.path, c.file)) \in files

\* generateThumbnail settles on the close event; checkThumbnail runs its
\* try / catch / finally to the end.
GenClose(c, code, wrote) ==
    /\ c \in CallsIn(checks)
    /\ c.pc = "gen"
    /\ thumbFiles' = OutputAfter(c, wrote)
    /\ IF GenerationSucceeded(c, code, thumbFiles')
       THEN /\ SetThumbnailsAndSave(WithThumbnail(thumbnails, c.path,
                                        ThumbnailPathOf(VideoFile(c.path, c.file))))
            /\ genSucceeded' = RecordSuccess(ThumbnailPathOf(VideoFile(c.path, c.file)))
       ELSE UNCHANGED <<thumbnails, lsThumbs, blobWrites, renderPending, genSucceeded>>
    /\ Release(c.path)
    /\ checks' = DropCall(checks, c)
    /\ UNCHANGED <<diskFolders, repFile, unreadableRoots, lsLastPlayed, lastWrites, folders, lastPlayed,
                   isLoading, rFolders, rLastPlayed, rThumbnails, aThumbnails,
                   actionsStale, loadPc, plays, deletes, userVars, genStarted,
                   deletedThumbs, nSyncs>>
    /\ genOutcome' = RecordOutcome(ThumbnailPathOf(VideoFile(c.path, c.file)),
                                   IF code = 0 THEN "exit0" ELSE "exit1")
    /\ UNCHANGED saveFailure
    /\ lateEvent' = RecordLate(ThumbnailPathOf(VideoFile(c.path, c.file)), "timer", c.path)
    /\ UNCHANGED queueVars

\* ffmpeg.on("error", reject): the process could not be spawned
GenError(c) ==
    /\ c \in CallsIn(checks)
    /\ c.pc = "gen"
    /\ Release(c.path)
    /\ checks' = DropCall(checks, c)
    /\ UNCHANGED <<diskVars, storeVars, stateVars, renderVars, loadPc, plays, deletes,
                   userVars>>
    /\ genOutcome' = RecordOutcome(ThumbnailPathOf(VideoFile(c.path, c.file)), "error")
    /\ UNCHANGED saveFailure
    /\ lateEvent' = RecordLate(ThumbnailPathOf(VideoFile(c.path, c.file)), "timer", c.path)
    /\ UNCHANGED <<genStarted, genSucceeded, deletedThumbs, nSyncs>>
    /\ UNCHANGED queueVars

\* generateThumbnail without its timer: the timeout never fires
GenTimeoutNotArmed(c, wrote) ==
    /\ FALSE
    /\ UNCHANGED vars

\* a timeout that records the output the killed process left behind
GenTimeoutRecordsOutput(c, wrote) ==
    /\ c \in CallsIn(checks)
    /\ c.pc = "gen"
    /\ thumbFiles' = OutputAfter(c, wrote)
    /\ IF wrote
       THEN SetThumbnailsAndSave(WithThumbnail(thumbnails, c.path,
                                     ThumbnailPathOf(VideoFile(c.path, c.file))))
       ELSE UNCHANGED <<thumbnails, lsThumbs, blobWrites, renderPending>>
    /\ Release(c.path)
    /\ checks' = DropCall(checks, c)
    /\ UNCHANGED <<diskFolders, repFile, unreadableRoots, lsLastPlayed, lastWrites, folders, lastPlayed,
                   isLoading, rFolders, rLastPlayed, rThumbnails, aThumbnails,
                   actionsStale, loadPc, plays, deletes, userVars>>
    /\ genOutcome' = RecordOutcome(ThumbnailPathOf(VideoFile(c.path, c.file)), "timeout")
    /\ UNCHANGED saveFailure
    /\ lateEvent' = RecordLate(ThumbnailPathOf(VideoFile(c.path, c.file)), "close", c.path)
    /\ UNCHANGED <<genStarted, genSucceeded, deletedThumbs, nSyncs>>
    /\ UNCHANGED queueVars

\* setTimeout(() => { ffmpeg.kill(); reject(new Error("FFmpeg timeout")); }, 10000)
\* fires before the process closed; the killed process may have written output
GenTimeout(c, wrote) ==
    /\ c \in CallsIn(checks)
    /\ c.pc = "gen"
    /\ thumbFiles' = OutputAfter(c, wrote)
    /\ Release(c.path)
    /\ checks' = DropCall(checks, c)
    /\ UNCHANGED <<diskFolders, repFile, unreadableRoots, storeVars, stateVars, renderVars, loadPc,
                   plays, deletes, userVars>>
    /\ genOutcome' = RecordOutcome(ThumbnailPathOf(VideoFile(c.path, c.file)), "timeout")
    /\ UNCHANGED saveFailure
    /\ lateEvent' = RecordLate(ThumbnailPathOf(VideoFile(c.path, c.file)), "close", c.path)
    /\ UNCHANGED <<genStarted, genSucceeded, deletedThumbs, nSyncs>>
    /\ UNCHANGED queueVars


\* confirmAlert is modal: while it is shown no other action can be triggered
AlertShown == \E c \in CallsIn(deletes) : c.pc = "confirm"

(***************************************************************************)
(* play and saveLastPlayed.  The handlers inside titleActions see the      *)
(* lastPlayed, folders and thumbnails of the render that created them.     *)
(***************************************************************************)
\* the user triggers "play" on the item of folder p; play runs up to
\* await getTitleInfo(folder.path)
Play(p) ==
    /\ p \in rFolders
    /\ ~windowClosed
    /\ ~AlertShown
    /\ nActions < MaxUserActions
    /\ plays' = AddCall(plays, [folder |-> p, lp |-> rLastPlayed])
    /\ nActions' = nActions + 1
    /\ UNCHANGED <<diskVars, storeVars, stateVars, renderVars, gateVars, loadPc, checks,
                   deletes, lastVisible, toasts, scanErrors, windowClosed, mpvLaunches, nAdds>>
    /\ UNCHANGED histVars
    /\ UNCHANGED queueVars

\* saveLastPlayed(folder) up to its await: the write is issued
SaveLastPlayedIssued(c) ==
    Append(lastWrites, [op |-> "play", val |-> UpdatedLastPlayed(c.lp, c.folder),
                        folder |-> c.folder, thumb |-> None])

\* play without the check of titleInfo.file
PlayResolvedUnchecked(c) ==
    /\ c \in CallsIn(plays)
    /\ plays' = DropCall(plays, c)
    /\ mpvLaunches' = mpvLaunches \cup {c.folder}
    /\ windowClosed' = TRUE
    /\ lastWrites' = SaveLastPlayedIssued(c)
    /\ UNCHANGED <<toasts, scanErrors>>
    /\ UNCHANGED <<diskVars, lsThumbs, lsLastPlayed, blobWrites, stateVars, renderVars,
                   gateVars, loadPc, checks, deletes, lastVisible, nActions, nAdds>>
    /\ UNCHANGED histVars
    /\ UNCHANGED queueVars

\* getTitleInfo has resolved: play throws "No video found" and shows the
\* failure toast, or spawns mpv, closes the window and calls saveLastPlayed
\* without awaiting it
PlayResolved(c) ==
    /\ c \in CallsIn(plays)
    /\ plays' = DropCall(plays, c)
    /\ IF TitleInfoFile(c.folder) = None
       THEN /\ toasts' = "playError"
            /\ UNCHANGED scanErrors
            /\ UNCHANGED <<mpvLaunches, windowClosed, lastWrites>>
       ELSE /\ mpvLaunches' = mpvLaunches \cup {c.folder}
            /\ windowClosed' = TRUE
            /\ lastWrites' = SaveLastPlayedIssued(c)
            /\ UNCHANGED <<toasts, scanErrors>>
    /\ UNCHANGED <<diskVars, lsThumbs, lsLastPlayed, blobWrites, stateVars, renderVars,
                   gateVars, loadPc, checks, deletes, lastVisible, nActions, nAdds>>
    /\ UNCHANGED histVars
    /\ UNCHANGED queueVars

\* await LocalStorage.setItem(LAST_PLAYED_KEY, ...) of saveLastPlayed has
\* completed; setLastPlayed(updatedLastPlayed)
SaveLastPlayedDone ==
    /\ lastWrites # <<>>
    /\ Head(lastWrites).op = "play"
    /\ lsLastPlayed' = LastPlayedRecord(Head(lastWrites).val)
    /\ lastWrites' = Tail(lastWrites)
    /\ lastPlayed' = Head(lastWrites).val
    /\ renderPending' = TRUE
    /\ actionsStale' = TRUE
    /\ UNCHANGED <<diskVars, lsThumbs, blobWrites, folders, thumbnails, isLoading,
                   rFolders, rLastPlayed, rThumbnails, aThumbnails, gateVars, callVars,
                   userVars>>
    /\ UNCHANGED histVars
    /\ UNCHANGED queueVars

\* the user opens the window again; the command is still mounted
ReopenWindow ==
    /\ windowClosed
    /\ windowClosed' = FALSE
    /\ UNCHANGED <<diskVars, storeVars, stateVars, renderVars, gateVars, callVars,
                   lastVisible, toasts, scanErrors, mpvLaunches, nActions, nAdds>>
    /\ UNCHANGED histVars
    /\ UNCHANGED queueVars

(***************************************************************************)
(* deleteTitleFolder.                                                      *)
(***************************************************************************)
\* the user triggers "delete" on the item of folder p: confirmAlert is shown
DeleteStart(p) ==
    /\ p \in rFolders
    /\ ~windowClosed
    /\ ~AlertShown
    /\ nActions < MaxUserActions
    /\ deletes' = AddCall(deletes, [folder |-> p, pc |-> "confirm", fs |-> rFolders,
                                    lp |-> rLastPlayed, thumb |-> aThumbnails[p]])
    /\ nActions' = nActions + 1
    /\ UNCHANGED <<diskVars, storeVars, stateVars, renderVars, gateVars, loadPc, checks,
                   plays, lastVisible, toasts, scanErrors, windowClosed, mpvLaunches, nAdds>>
    /\ UNCHANGED histVars
    /\ UNCHANGED queueVars

\* a decline that has already taken the folder out of the list
DeleteDeclinedAfterFilter(c) ==
    /\ c \in CallsIn(deletes)
    /\ c.pc = "confirm"
    /\ deletes' = DropCall(deletes, c)
    /\ folders' = c.fs \ {c.folder}
    /\ renderPending' = TRUE
    /\ UNCHANGED <<diskVars, storeVars, lastPlayed, thumbnails, isLoading, rFolders,
                   rLastPlayed, rThumbnails, aThumbnails, actionsStale, gateVars, loadPc,
                   checks, plays, userVars>>
    /\ UNCHANGED histVars
    /\ UNCHANGED queueVars

\* confirmAlert resolves false: nothing else runs
DeleteDeclined(c) ==
    /\ c \in CallsIn(deletes)
    /\ c.pc = "confirm"
    /\ deletes' = DropCall(deletes, c)
    /\ UNCHANGED <<diskVars, storeVars, stateVars, renderVars, gateVars, loadPc, checks,
                   plays, userVars>>
    /\ UNCHANGED histVars
    /\ UNCHANGED queueVars

\* confirmAlert resolves true: rm(folder.path, ...) is started
DeleteConfirmed(c) ==
    /\ c \in CallsIn(deletes)
    /\ c.pc = "confirm"
    /\ deletes' = AddCall(DropCall(deletes, c), [c EXCEPT !.pc = "rm"])
    /\ UNCHANGED <<diskVars, storeVars, stateVars, renderVars, gateVars, loadPc, checks,
                   plays, userVars>>
    /\ UNCHANGED histVars
    /\ UNCHANGED queueVars

\* rm(folder.path) succeeded: success toast, setFolders, setLastPlayed, and
\* the write of the last-played record is issued and awaited
DeleteRmDone(c) ==
    /\ c \in CallsIn(deletes)
    /\ c.pc = "rm"
    /\ deletes' = DropCall(deletes, c)
    /\ diskFolders' = diskFolders \ {c.folder}
    /\ toasts' = "deleted"
    /\ UNCHANGED scanErrors
    /\ folders' = c.fs \ {c.folder}
    /\ lastPlayed' = WithoutPath(c.lp, c.folder)
    /\ renderPending' = TRUE
    /\ actionsStale' = TRUE
    /\ lastWrites' = Append(lastWrites, [op |-> "delete", val |-> WithoutPath(c.lp, c.folder),
                                         folder |-> c.folder, thumb |-> c.thumb])
    /\ UNCHANGED <<repFile, unreadableRoots, thumbFiles, lsThumbs, lsLastPlayed, blobWrites, thumbnails, isLoading,
                   rFolders, rLastPlayed, rThumbnails, aThumbnails, gateVars, loadPc,
                   checks, plays, lastVisible, windowClosed, mpvLaunches, nActions, nAdds>>
    /\ deletedThumbs' = deletedThumbs \cup ({thumbnails[c.folder]} \ {None})
    /\ UNCHANGED <<genStarted, genSucceeded, nSyncs, genOutcome, saveFailure, lateEvent>>
    /\ UNCHANGED queueVars

\* a failed rm that has already taken the folder out of the list
DeleteRmFailedAfterSetFolders(c) ==
    /\ c \in CallsIn(deletes)
    /\ c.pc = "rm"
    /\ deletes' = DropCall(deletes, c)
    /\ toasts' = "deleteFailed"
    /\ UNCHANGED scanErrors
    /\ folders' = c.fs \ {c.folder}
    /\ renderPending' = TRUE
    /\ UNCHANGED <<diskVars, storeVars, lastPlayed, thumbnails, isLoading, rFolders,
                   rLastPlayed, rThumbnails, aThumbnails, actionsStale, gateVars, loadPc,
                   checks, plays, lastVisible, windowClosed, mpvLaunches, nActions, nAdds>>
    /\ UNCHANGED histVars
    /\ UNCHANGED queueVars

\* rm(folder.path) rejected: the failure toast
DeleteRmFailed(c) ==
    /\ c \in CallsIn(deletes)
    /\ c.pc = "rm"
    /\ deletes' = DropCall(deletes, c)
    /\ toasts' = "deleteFailed"
    /\ UNCHANGED scanErrors
    /\ UNCHANGED <<diskVars, storeVars, stateVars, renderVars, gateVars, loadPc, checks,
                   plays, lastVisible, windowClosed, mpvLaunches, nActions, nAdds>>
    /\ UNCHANGED histVars
    /\ UNCHANGED queueVars

\* const thumbnailPath = thumbnails[folder.path];
\* if (thumbnailPath && existsSync(thumbnailPath)) await rm(thumbnailPath)
RemovesThumbnailFile(thumb) == thumb # None /\ thumb \in thumbFiles

\* the write of the last-played record has completed: the entry is taken
\* out of the thumbnails map, the blob is saved, and the thumbnail file the
\* closure knows of is removed
DeleteStoreDone ==
    /\ lastWrites # <<>>
    /\ Head(lastWrites).op = "delete"
    /\ lsLastPlayed' = LastPlayedRecord(Head(lastWrites).val)
    /\ lastWrites' = Tail(lastWrites)
    /\ SetThumbnailsAndSave(WithoutThumbnail(thumbnails, Head(lastWrites).folder))
    /\ deletes' = IF RemovesThumbnailFile(Head(lastWrites).thumb)
                  THEN AddCall(deletes, [folder |-> Head(lastWrites).folder, pc |-> "rmThumb",
                                         fs |-> {}, lp |-> <<>>,
                                         thumb |-> Head(lastWrites).thumb])
                  ELSE deletes
    /\ UNCHANGED <<diskVars, folders, lastPlayed, isLoading, rFolders, rLastPlayed,
                   rThumbnails, aThumbnails, actionsStale, gateVars, loadPc, checks,
                   plays, userVars>>
    /\ UNCHANGED histVars
    /\ UNCHANGED queueVars

\* await rm(thumbnailPath).catch(console.error) has settled
DeleteThumbRm(c, ok) ==
    /\ c \in CallsIn(deletes)
    /\ c.pc = "rmThumb"
    /\ deletes' = DropCall(deletes, c)
    /\ thumbFiles' = IF ok THEN thumbFiles \ {c.thumb} ELSE thumbFiles
    /\ UNCHANGED <<diskFolders, repFile, unreadableRoots, storeVars, stateVars, renderVars, gateVars,
                   loadPc, checks, plays, userVars>>
    /\ UNCHANGED histVars
    /\ UNCHANGED queueVars

(***************************************************************************)
(* The variant src/src/mpv-launcher.tsx also verifies the last-played list *)
(* and synchronises it with the folders.  Both functions are reached only  *)
(* from the mount effect, so they see the lastPlayed and the folders of    *)
(* the first render.                                                       *)
(***************************************************************************)
MountLastPlayed == <<>>
MountFolders == {}

\* lastPlayed.filter((_, index) => existenceChecks[index].status === "fulfilled")
RECURSIVE ExistingLastPlayed(_)
ExistingLastPlayed(list) ==
    IF list = <<>> THEN <<>>
    ELSE IF Head(list) \in diskFolders
         THEN <<Head(list)>> \o ExistingLastPlayed(Tail(list))
         ELSE ExistingLastPlayed(Tail(list))

\* the list is set and stored
SetAndStoreLastPlayed(list) ==
    /\ lastPlayed' = list
    /\ lsLastPlayed' = LastPlayedRecord(list)
    /\ renderPending' = TRUE
    /\ actionsStale' = TRUE

\* verifyLastPlayedInBackground: entries whose folder is gone are dropped
verifyLastPlayedInBackground(lp) ==
    IF Len(ExistingLastPlayed(lp)) # Len(lp)
    THEN SetAndStoreLastPlayed(ExistingLastPlayed(lp))
    ELSE UNCHANGED <<lastPlayed, lsLastPlayed, renderPending, actionsStale>>

\* syncLastPlayedWithFolders: entries whose folder changed its series count
\* are refreshed; the paths and their order stay
syncLastPlayedWithFolders(lp, fs, hasUpdates) ==
    IF Len(lp) = 0 \/ fs = {} \/ ~hasUpdates
    THEN UNCHANGED <<lastPlayed, lsLastPlayed, renderPending, actionsStale>>
    ELSE SetAndStoreLastPlayed(lp)

\* the background task of the mount effect, or refreshFoldersSilent, runs
BackgroundCheck(verify, hasUpdates) ==
    /\ loadPc = "done"
    /\ nSyncs < MaxSyncs
    /\ nSyncs' = nSyncs + 1
    /\ IF verify THEN verifyLastPlayedInBackground(MountLastPlayed)
       ELSE syncLastPlayedWithFolders(MountLastPlayed, MountFolders, hasUpdates)
    /\ UNCHANGED <<diskVars, lsThumbs, blobWrites, lastWrites, folders, thumbnails,
                   isLoading, rFolders, rLastPlayed, rThumbnails, aThumbnails, gateVars,
                   callVars, userVars, genStarted, genSucceeded, deletedThumbs,
                   genOutcome, saveFailure, lateEvent>>
    /\ UNCHANGED queueVars

\* preloadExistingThumbnails with the thumbnails ths and the folders fs of
\* its closure: the folders without entry whose thumbnail file is in the
\* cache directory get their entry, and the mapping is set and saved if it
\* has grown
preloadExistingThumbnails(ths, fs) ==
    LET hashToPath(p) ==
            IF /\ p \in fs
               /\ TitleInfoFile(p) # None
               /\ ThumbnailPathOf(VideoFile(p, TitleInfoFile(p))) \in thumbFiles
            THEN ThumbnailPathOf(VideoFile(p, TitleInfoFile(p))) ELSE None
        newThumbnails == [p \in Paths |-> IF ths[p] # None THEN ths[p] ELSE hashToPath(p)]
    IN IF Cardinality({p \in Paths : newThumbnails[p] # None})
             > Cardinality({p \in Paths : ths[p] # None})
       THEN /\ thumbnails' = newThumbnails
            /\ saveThumbnailsCache(newThumbnails)
            /\ renderPending' = TRUE
       ELSE UNCHANGED <<thumbnails, lsThumbs, blobWrites, renderPending>>

\* the second background task of the mount effect; like the first it is
\* reached from the timer of initialLoad and sees the thumbnails (none) and
\* the folders of the first render
BackgroundPreload ==
    /\ loadPc = "done"
    /\ nSyncs < MaxSyncs
    /\ nSyncs' = nSyncs + 1
    /\ preloadExistingThumbnails(EmptyThumbs, MountFolders)
    /\ UNCHANGED <<diskVars, lsLastPlayed, lastWrites, folders, lastPlayed, isLoading,
                   rFolders, rLastPlayed, rThumbnails, aThumbnails, actionsStale,
                   gateVars, callVars, userVars, genStarted, genSucceeded,
                   deletedThumbs, genOutcome, saveFailure, lateEvent>>
    /\ UNCHANGED queueVars

(***************************************************************************)
(* mpv-launcher.tsx: the initial load, handleItemVisible and the           *)
(* ThumbnailQueue.  Their invocations are kept in checks with the program  *)
(* counters "find" (checkThumbnail of handleItemVisible awaits             *)
(* findFirstVideoFile), "qfind" and "qgen" (generateThumbnail of the queue *)
(* awaits findFirstVideoFile, ffmpeg) and "timer" (setTimeout of           *)
(* processNext).                                                           *)
(***************************************************************************)
\* initialLoad up to await refreshFoldersSilent(): the stored mapping is
\* set as it is; JSON.parse throwing ends in the catch branch, a record
\* without mapping sets the state to undefined and the next render throws
initialLoad ==
    /\ loadPc = "start"
    /\ IF lsThumbs.kind = "corrupt"
       THEN /\ isLoading' = FALSE
            /\ loadPc' = "scan"
            /\ renderPending' = TRUE
            /\ UNCHANGED <<lastPlayed, thumbnails, actionsStale>>
       ELSE /\ lastPlayed' = IF lsLastPlayed.kind = "ok" THEN lsLastPlayed.list
                             ELSE lastPlayed
            /\ actionsStale' = (actionsStale \/ lsLastPlayed.kind = "ok")
            /\ thumbnails' = IF lsThumbs.kind = "ok" THEN lsThumbs.map ELSE thumbnails
            /\ renderPending' = (renderPending \/ lsLastPlayed.kind = "ok"
                                               \/ lsThumbs.kind = "ok")
            /\ loadPc' = IF lsThumbs.kind = "nomap" THEN "crashed" ELSE "scan"
            /\ UNCHANGED isLoading
    /\ UNCHANGED <<diskVars, storeVars, folders, rFolders, rLastPlayed, rThumbnails,
                   aThumbnails, gateVars, checks, plays, deletes, userVars>>
    /\ UNCHANGED <<histVars, queueVars>>

\* refreshFoldersSilent: the folders found are set unless there are none
refreshFoldersSilent ==
    /\ loadPc = "scan"
    /\ loadPc' = "done"
    /\ IF loadFreshFolders # {}
       THEN /\ folders' = loadFreshFolders
            /\ renderPending' = TRUE
            /\ actionsStale' = TRUE
       ELSE UNCHANGED <<folders, renderPending, actionsStale>>
    /\ ReportScanErrors
    /\ UNCHANGED <<diskVars, storeVars, lastPlayed, thumbnails, isLoading, rFolders,
                   rLastPlayed, rThumbnails, aThumbnails, gateVars, checks, plays,
                   deletes, lastVisible, windowClosed, mpvLaunches, nActions, nAdds>>
    /\ UNCHANGED <<histVars, queueVars>>

\* a handler that forgets which items it has seen
VisitedNever(p) == FALSE

\* visibleItemsRef.current.has(path)
Visited(p) == p \in visibleItems

\* A grid item of folder p mounts, or its hasExistingThumbnail changes: the
\* effect calls handleItemVisible(folder.path) if the render had no
\* thumbnail, and checkThumbnail runs up to await findFirstVideoFile(path).
handleItemVisible(p) ==
    /\ p \in rFolders
    /\ IF rThumbnails[p] # None
       THEN /\ lastVisible' = Seen("cached")
            /\ UNCHANGED <<visibleItems, checks>>
       ELSE IF Visited(p)
       THEN /\ lastVisible' = Seen("skipped")
            /\ UNCHANGED <<visibleItems, checks>>
       ELSE /\ lastVisible' = Seen("admitted")
            /\ visibleItems' = visibleItems \cup {p}
            /\ checks' = AddCall(checks, [path |-> p, pc |-> "find", file |-> None])
    /\ UNCHANGED <<diskVars, storeVars, stateVars, renderVars, gateVars, loadPc, plays,
                   deletes, toasts, scanErrors, windowClosed, mpvLaunches, nActions, nAdds>>
    /\ UNCHANGED <<queue, processing, processingPaths>>
    /\ UNCHANGED histVars

\* setThumbnails((prev) => { if (prev[path]) return prev; ...; saveThumbnailsCache(updated); return updated; })
SetThumbnailIfAbsent(p, tp) ==
    IF thumbnails[p] # None
    THEN UNCHANGED <<thumbnails, lsThumbs, blobWrites, renderPending>>
    ELSE SetThumbnailsAndSave(WithThumbnail(thumbnails, p, tp))

\* a processNext that lets one invocation too many start
processNextOffByOne(q, cs) ==
    IF processing > MaxConcurrent \/ q = <<>>
    THEN /\ queue' = q
         /\ checks' = cs
         /\ UNCHANGED <<processing, processingPaths>>
    ELSE /\ queue' = Tail(q)
         /\ processing' = processing + 1
         /\ processingPaths' = processingPaths \cup {Head(q)}
         /\ checks' = AddCall(cs, [path |-> Head(q), pc |-> "qfind", file |-> None])

\* processNext() on the queue q with the invocations cs in progress: the
\* head of the queue is taken if a slot is free, and generateThumbnail runs
\* up to await findFirstVideoFile(folderPath)
processNext(q, cs) ==
    IF processing >= MaxConcurrent \/ q = <<>>
    THEN /\ queue' = q
         /\ checks' = cs
         /\ UNCHANGED <<processing, processingPaths>>
    ELSE /\ queue' = Tail(q)
         /\ processing' = processing + 1
         /\ processingPaths' = processingPaths \cup {Head(q)}
         /\ checks' = AddCall(cs, [path |-> Head(q), pc |-> "qfind", file |-> None])

\* findFirstVideoFile of checkThumbnail has resolved: an existing file is
\* recorded, otherwise thumbnailQueue.add(path, callback)
FindFirstVideoFileDone(c) ==
    /\ c \in CallsIn(checks)
    /\ c.pc = "find"
    /\ LET file == TitleInfoFile(c.path) IN
       IF file = None
       THEN /\ checks' = DropCall(checks, c)
            /\ UNCHANGED <<thumbnails, lsThumbs, blobWrites, renderPending, queue,
                           processing, processingPaths>>
       ELSE IF ThumbnailPathOf(VideoFile(c.path, file)) \in thumbFiles
       THEN /\ SetThumbnailIfAbsent(c.path, ThumbnailPathOf(VideoFile(c.path, file)))
            /\ checks' = DropCall(checks, c)
            /\ UNCHANGED <<queue, processing, processingPaths>>
       ELSE IF c.path \in processingPaths
       THEN /\ checks' = DropCall(checks, c)
            /\ UNCHANGED <<thumbnails, lsThumbs, blobWrites, renderPending, queue,
                           processing, processingPaths>>
       ELSE /\ processNext(Append(queue, c.path), DropCall(checks, c))
            /\ UNCHANGED <<thumbnails, lsThumbs, blobWrites, renderPending>>
    /\ UNCHANGED <<diskVars, lsLastPlayed, lastWrites, folders, lastPlayed, isLoading,
                   rFolders, rLastPlayed, rThumbnails, aThumbnails, actionsStale,
                   gateVars, loadPc, plays, deletes, userVars, visibleItems>>
    /\ UNCHANGED histVars

\* the timer of setTimeout(() => this.processNext(), 100)
TimerCall == [path |-> None, pc |-> "timer", file |-> None]

\* a finally that frees the slot without scheduling processNext
FinallyNoTimer(c) ==
    /\ processing' = processing - 1
    /\ processingPaths' = processingPaths \ {c.path}
    /\ checks' = DropCall(checks, c)
    /\ UNCHANGED queue

\* finally { this.processing--; this.processingPaths.delete(item.path); setTimeout(...) }
Finally(c) ==
    /\ processing' = processing - 1
    /\ processingPaths' = processingPaths \ {c.path}
    /\ checks' = AddCall(DropCall(checks, c), TimerCall)
    /\ UNCHANGED queue

\* the timer fires: processNext()
ProcessNextTimer ==
    /\ TimerCall \in CallsIn(checks)
    /\ processNext(queue, DropCall(checks, TimerCall))
    /\ UNCHANGED <<diskVars, storeVars, stateVars, renderVars, gateVars, loadPc, plays,
                   deletes, userVars, visibleItems>>
    /\ UNCHANGED histVars

\* findFirstVideoFile of generateThumbnail has resolved: it returns without
\* a video, reports an existing file, or spawns ffmpeg
QueueFindDone(c) ==
    /\ c \in CallsIn(checks)
    /\ c.pc = "qfind"
    /\ LET file == TitleInfoFile(c.path) IN
       IF file = None
       THEN /\ Finally(c)
            /\ UNCHANGED <<thumbnails, lsThumbs, blobWrites, renderPending, genStarted>>
       ELSE IF ThumbnailPathOf(VideoFile(c.path, file)) \in thumbFiles
       THEN /\ SetThumbnailIfAbsent(c.path, ThumbnailPathOf(VideoFile(c.path, file)))
            /\ Finally(c)
            /\ UNCHANGED genStarted
       ELSE /\ checks' = AddCall(DropCall(checks, c), [c EXCEPT !.pc = "qgen", !.file = file])
            /\ genStarted' = CountStart(ThumbnailPathOf(VideoFile(c.path, file)))
            /\ UNCHANGED <<thumbnails, lsThumbs, blobWrites, renderPending, queue,
                           processing, processingPaths>>
    /\ UNCHANGED <<diskVars, lsLastPlayed, lastWrites, folders, lastPlayed, isLoading,
                   rFolders, rLastPlayed, rThumbnails, aThumbnails, actionsStale,
                   gateVars, loadPc, plays, deletes, userVars, visibleItems,
                   genSucceeded, deletedThumbs, nSyncs, genOutcome, saveFailure, lateEvent>>

\* the close event of the queue's ffmpeg: with code 0 and the file present
\* the callback records the thumbnail; the error is caught and logged
QueueGenClose(c, code, wrote) ==
    /\ c \in CallsIn(checks)
    /\ c.pc = "qgen"
    /\ thumbFiles' = OutputAfter(c, wrote)
    /\ IF GenerationSucceeded(c, code, thumbFiles')
       THEN /\ SetThumbnailIfAbsent(c.path, ThumbnailPathOf(VideoFile(c.path, c.file)))
            /\ genSucceeded' = RecordSuccess(ThumbnailPathOf(VideoFile(c.path, c.file)))
       ELSE UNCHANGED <<thumbnails, lsThumbs, blobWrites, renderPending, genSucceeded>>
    /\ Finally(c)
    /\ genOutcome' = RecordOutcome(ThumbnailPathOf(VideoFile(c.path, c.file)),
                                   IF code = 0 THEN "exit0" ELSE "exit1")
    /\ UNCHANGED saveFailure
    /\ lateEvent' = RecordLate(ThumbnailPathOf(VideoFile(c.path, c.file)), "timer", c.path)
    /\ UNCHANGED <<diskFolders, repFile, unreadableRoots, lsLastPlayed, lastWrites, folders, lastPlayed,
                   isLoading, rFolders, rLastPlayed, rThumbnails, aThumbnails,
                   actionsStale, gateVars, loadPc, plays, deletes, userVars,
                   visibleItems, genStarted, deletedThumbs, nSyncs>>

\* the error event or the 10 s timer of the queue's ffmpeg: the promise is
\* rejected, the error is caught and logged
QueueGenFailed(c, outcome, wrote) ==
    /\ c \in CallsIn(checks)
    /\ c.pc = "qgen"
    /\ outcome = "error" => ~wrote
    /\ thumbFiles' = OutputAfter(c, wrote)
    /\ Finally(c)
    /\ genOutcome' = RecordOutcome(ThumbnailPathOf(VideoFile(c.path, c.file)), outcome)
    /\ UNCHANGED saveFailure
    /\ lateEvent' = RecordLate(ThumbnailPathOf(VideoFile(c.path, c.file)), IF outcome = "timeout" THEN "close" ELSE "timer", c.path)
    /\ UNCHANGED <<diskFolders, repFile, unreadableRoots, storeVars, stateVars, renderVars, gateVars,
                   loadPc, plays, deletes, userVars, visibleItems, genStarted,
                   genSucceeded, deletedThumbs, nSyncs>>

(***************************************************************************)
(* Events that arrive after the promise of a run of ffmpeg has settled:    *)
(* the close event of the process the timer has killed, or the 10 s timer  *)
(* after the close or error event.                                         *)
(***************************************************************************)
\* part_000: the close handler calls resolve or reject and the timer calls
\* ffmpeg.kill() and reject, all on a promise that is settled
GenLateEvent(f) ==
    /\ f \in DOMAIN lateEvent
    /\ lateEvent[f].kind # "none"
    /\ lateEvent' = [lateEvent EXCEPT ![f] = NoLateEvent]
    /\ UNCHANGED <<diskVars, storeVars, stateVars, renderVars, gateVars, callVars,
                   userVars, queueVars>>
    /\ UNCHANGED <<genStarted, genSucceeded, deletedThumbs, nSyncs, genOutcome, saveFailure>>

\* mpv-launcher.tsx: the close handler calls onThumbnailGenerated before
\* resolve when the code is 0 and the file exists
QueueLateClose(f, code) ==
    /\ f \in DOMAIN lateEvent
    /\ lateEvent[f].kind = "close"
    /\ IF code = 0 /\ f \in thumbFiles
       THEN SetThumbnailIfAbsent(lateEvent[f].path, f)
       ELSE UNCHANGED <<thumbnails, lsThumbs, blobWrites, renderPending>>
    /\ lateEvent' = [lateEvent EXCEPT ![f] = NoLateEvent]
    /\ UNCHANGED <<diskVars, lsLastPlayed, lastWrites, folders, lastPlayed, isLoading,
                   rFolders, rLastPlayed, rThumbnails, aThumbnails, actionsStale,
                   gateVars, callVars, userVars, queueVars>>
    /\ UNCHANGED <<genStarted, genSucceeded, deletedThumbs, nSyncs, genOutcome, saveFailure>>

\* mpv-launcher.tsx: the timer calls ffmpeg.kill() and reject after the
\* close or error event
QueueLateTimer(f) ==
    /\ f \in DOMAIN lateEvent
    /\ lateEvent[f].kind = "timer"
    /\ lateEvent' = [lateEvent EXCEPT ![f] = NoLateEvent]
    /\ UNCHANGED <<diskVars, storeVars, stateVars, renderVars, gateVars, callVars,
                   userVars, queueVars>>
    /\ UNCHANGED <<genStarted, genSucceeded, deletedThumbs, nSyncs, genOutcome, saveFailure>>

(***************************************************************************)
(* mpv-launcher.tsx: playMediaFolder.  saveLastPlayed is called before the *)
(* folder is searched for a video; its promise is awaited at the end.      *)
(***************************************************************************)
\* the user triggers "play" on the item of folder p: saveLastPlayed(folder)
\* runs up to its await, then playMediaFolder awaits findFirstVideoFile
playMediaFolder(p) ==
    /\ p \in rFolders
    /\ ~windowClosed
    /\ nActions < MaxUserActions
    /\ LET c == [folder |-> p, lp |-> rLastPlayed] IN
       /\ plays' = AddCall(plays, c)
       /\ lastWrites' = SaveLastPlayedIssued(c)
    /\ nActions' = nActions + 1
    /\ UNCHANGED <<diskVars, lsThumbs, lsLastPlayed, blobWrites, stateVars, renderVars,
                   gateVars, loadPc, checks, deletes, lastVisible, toasts, scanErrors, windowClosed,
                   mpvLaunches, nAdds>>
    /\ UNCHANGED <<histVars, queueVars>>

\* findFirstVideoFile has resolved.  Without a video playMediaFolder throws,
\* awaits savePromise in its catch branch and shows the failure toast; with
\* one it spawns mpv and calls closeMainWindow() next to savePromise
playMediaFolderResolved(c) ==
    /\ c \in CallsIn(plays)
    /\ plays' = DropCall(plays, c)
    /\ IF TitleInfoFile(c.folder) = None
       THEN /\ \A i \in 1..Len(lastWrites) : lastWrites[i].folder # c.folder
            /\ toasts' = "playError"
            /\ UNCHANGED scanErrors
            /\ UNCHANGED <<mpvLaunches, windowClosed>>
       ELSE /\ mpvLaunches' = mpvLaunches \cup {c.folder}
            /\ windowClosed' = TRUE
            /\ UNCHANGED <<toasts, scanErrors>>
    /\ UNCHANGED <<diskVars, storeVars, stateVars, renderVars, gateVars, loadPc, checks,
                   deletes, lastVisible, nActions, nAdds>>
    /\ UNCHANGED <<histVars, queueVars>>

(***************************************************************************)
(* The environment: a new first-sorted video appears in folder p.          *)
(***************************************************************************)
AddVideo(p) ==
    /\ p \in diskFolders
    /\ nAdds < MaxAdds
    /\ nAdds' = nAdds + 1
    /\ repFile' = [repFile EXCEPT ![p] = repFile[p] + 1]
    /\ UNCHANGED unreadableRoots
    /\ UNCHANGED <<diskFolders, thumbFiles, storeVars, stateVars, renderVars, gateVars,
                   callVars, lastVisible, toasts, scanErrors, windowClosed, mpvLaunches, nActions>>
    /\ UNCHANGED histVars
    /\ UNCHANGED queueVars

(***************************************************************************)
(* The state after construction: useState initial values, empty module     *)
(* state, nothing rendered but the empty grid.                             *)
(***************************************************************************)
Constructed ==
    /\ folders = {}
    /\ lastPlayed = <<>>
    /\ thumbnails = EmptyThumbs
    /\ isLoading = TRUE
    /\ rFolders = {}
    /\ rLastPlayed = <<>>
    /\ rThumbnails = EmptyThumbs
    /\ aThumbnails = EmptyThumbs
    /\ renderPending = FALSE
    /\ actionsStale = FALSE
    /\ processingThumbnails = {}
    /\ activeGenerations = 0
    /\ loadPc = "start"
    /\ checks = EmptyBag
    /\ plays = EmptyBag
    /\ deletes = EmptyBag
    /\ blobWrites = <<>>
    /\ lastWrites = <<>>
    /\ toasts = "none"
    /\ scanErrors = {}
    /\ windowClosed = FALSE
    /\ mpvLaunches = {}
    /\ nActions = 0
    /\ nAdds = 0
    /\ genSucceeded = {}
    /\ deletedThumbs = {}
    /\ nSyncs = 0
    /\ saveFailure = "none"
    /\ visibleItems = {}
    /\ queue = <<>>
    /\ processing = 0
    /\ processingPaths = {}

\* the history of the generations that write one of the given files is recorded
Observing(files) == genStarted = [f \in files |-> 0]

\* the result of the last visibility event is recorded, or not
ObservingEvents(on) == lastVisible = IF on THEN "none" ELSE "off"

\* the events that arrive after the runs that write one of the given files
\* have settled are followed
ObservingLate(files) == lateEvent = [f \in files |-> NoLateEvent]

\* the outcome of the generations that write one of the given files is recorded
ObservingOutcomes(files) == genOutcome = [f \in files |-> "none"]

ExitCodes == {0, 1}

(***************************************************************************)
(* Gate scenario: GateFolders folders, nothing cached, nothing stored.     *)
(* Either every folder has a video and no thumbnail file exists, or folder *)
(* 1 has no video and the thumbnail of folder 2 is already on disk.        *)
(* ffmpeg leaves its output file exactly when it exits with 0.             *)
(***************************************************************************)
InitGate ==
    /\ Constructed
    /\ AllRootsReadable
    /\ Observing({})
    /\ ObservingOutcomes({})
    /\ ObservingLate({})
    /\ ObservingEvents(TRUE)
    /\ diskFolders = 1..GateFolders
    /\ \E v1 \in {None, 1} :
         /\ repFile = [p \in Paths |-> IF p = 1 THEN v1
                                       ELSE IF p \in 1..GateFolders THEN 1 ELSE None]
         /\ thumbFiles = IF v1 = None THEN {ThumbnailPathOf(VideoFile(2, 1))} ELSE {}
    /\ lsThumbs = AbsentThumbs
    /\ lsLastPlayed = AbsentLastPlayed

NextGate ==
    \/ LoadStored
    \/ LoadFolders
    \/ Render
    \/ BlobWriteDone
    \/ \E p \in Paths : Visible(p)
    \/ \E c \in CallsIn(checks) : GetTitleInfoDone(c)
    \/ \E c \in CallsIn(checks), code \in ExitCodes : GenClose(c, code, code = 0)
    \/ \E c \in CallsIn(checks) : GenError(c)
    \/ \E c \in CallsIn(checks) : GenTimeout(c, FALSE)

Spec == InitGate /\ [][NextGate]_vars


(***************************************************************************)
(* Hung-process scenario: GateFolders folders with a video each, nothing   *)
(* cached, and no ffmpeg run ever produces its output file: a process      *)
(* exits without output, cannot be spawned, or never exits at all.         *)
(***************************************************************************)
InitLive ==
    /\ Constructed
    /\ AllRootsReadable
    /\ Observing({})
    /\ ObservingOutcomes({})
    /\ ObservingLate({})
    /\ ObservingEvents(TRUE)
    /\ diskFolders = 1..GateFolders
    /\ repFile = [p \in Paths |-> IF p \in 1..GateFolders THEN 1 ELSE None]
    /\ thumbFiles = {}
    /\ lsThumbs = AbsentThumbs
    /\ lsLastPlayed = AbsentLastPlayed

NextLive ==
    \/ LoadStored
    \/ LoadFolders
    \/ Render
    \/ \E p \in Paths : Visible(p)
    \/ \E c \in CallsIn(checks) : GetTitleInfoDone(c)
    \/ \E c \in CallsIn(checks), code \in ExitCodes : GenClose(c, code, FALSE)
    \/ \E c \in CallsIn(checks) : GenError(c)
    \/ \E c \in CallsIn(checks) : GenTimeout(c, FALSE)

\* Scheduling: a pending directory read completes and a pending timer fires.
\* Nothing is assumed about the ffmpeg process: it may never exit.
FairGate ==
    \A p \in Paths :
        /\ WF_vars(\E c \in CallsIn(checks) : c.path = p /\ GetTitleInfoDone(c))
        /\ WF_vars(\E c \in CallsIn(checks), wrote \in BOOLEAN :
                       c.path = p /\ GenTimeout(c, wrote))

SpecLive == InitLive /\ [][NextLive]_vars /\ FairGate

\* the full gate scenario under the same scheduling
SpecGateFair == InitGate /\ [][NextGate]_vars /\ FairGate

(***************************************************************************)
(* Mount scenario: the visibility events are the effects of the grid       *)
(* items.  GridItemWithLazyThumbnail is memoised on [thumbnails,           *)
(* checkThumbnail, titleActions], so every render after a change of        *)
(* thumbnails, folders or lastPlayed creates a new component: all items    *)
(* mount again and their effects run one after the other, in the order of  *)
(* the grid.  Nothing else calls checkThumbnail unless the user acts.      *)
(***************************************************************************)
\* the elements of a set of paths in the order of the grid sections
RECURSIVE Ascending(_)
Ascending(S) ==
    IF S = {} THEN <<>>
    ELSE LET m == CHOOSE x \in S : \A y \in S : x <= y
         IN <<m>> \o Ascending(S \ {m})

\* the items of the grid: sortedLastPlayed, then the folders
GridItems(fs, lp) == SelectSeq(lp, LAMBDA p : p \in fs) \o Ascending(fs)

\* the effects of the items run in order, each one checkThumbnail up to its
\* first await; g is the gate, the invocations and the result so far
RECURSIVE RunEffects(_, _, _)
RunEffects(items, map, g) ==
    IF items = <<>> THEN g
    ELSE LET p == Head(items) IN
         RunEffects(Tail(items), map,
             IF map[p] # None THEN [g EXCEPT !.last = "cached"]
             ELSE IF p \in g.marked THEN [g EXCEPT !.last = "skipped"]
             ELSE IF g.active >= MaxActiveGenerations THEN [g EXCEPT !.last = "full"]
             ELSE [marked |-> g.marked \cup {p},
                   active |-> g.active + 1,
                   calls |-> AddCall(g.calls, [path |-> p, pc |-> "info", file |-> None]),
                   last |-> "admitted"])

\* a render and the effects of the items it mounts
RenderAndMount ==
    /\ renderPending
    /\ rFolders' = folders
    /\ rLastPlayed' = lastPlayed
    /\ rThumbnails' = thumbnails
    /\ aThumbnails' = IF actionsStale THEN thumbnails ELSE aThumbnails
    /\ renderPending' = FALSE
    /\ actionsStale' = FALSE
    /\ LET g == RunEffects(GridItems(folders, lastPlayed), thumbnails,
                           [marked |-> processingThumbnails, active |-> activeGenerations,
                            calls |-> checks, last |-> lastVisible])
       IN /\ processingThumbnails' = g.marked
          /\ activeGenerations' = g.active
          /\ checks' = g.calls
          /\ lastVisible' = Seen(g.last)
    /\ UNCHANGED <<diskVars, storeVars, stateVars, loadPc, plays, deletes, toasts, scanErrors,
                   windowClosed, mpvLaunches, nActions, nAdds>>
    /\ UNCHANGED <<histVars, queueVars>>

InitMount ==
    /\ Constructed
    /\ AllRootsReadable
    /\ Observing({ThumbnailPathOf(VideoFile(p, 1)) : p \in 1..GateFolders})
    /\ ObservingOutcomes({})
    /\ ObservingLate({})
    /\ ObservingEvents(TRUE)
    /\ diskFolders = 1..GateFolders
    /\ repFile = [p \in Paths |-> IF p \in 1..GateFolders THEN 1 ELSE None]
    /\ thumbFiles = {}
    /\ lsThumbs = AbsentThumbs
    /\ lsLastPlayed = AbsentLastPlayed

NextMount ==
    \/ LoadStored
    \/ LoadFolders
    \/ RenderAndMount
    \/ BlobWriteDone
    \/ \E c \in CallsIn(checks) : GetTitleInfoDone(c)
    \/ \E c \in CallsIn(checks), code \in ExitCodes : GenClose(c, code, code = 0)
    \/ \E c \in CallsIn(checks) : GenError(c)
    \/ \E c \in CallsIn(checks) : GenTimeout(c, FALSE)

\* Scheduling: every step of the program that is pending is taken, and
\* every ffmpeg run ends in one of its outcomes.
FairMount ==
    /\ WF_vars(LoadStored)
    /\ WF_vars(LoadFolders)
    /\ WF_vars(RenderAndMount)
    /\ WF_vars(BlobWriteDone)
    /\ \A p \in Paths :
        /\ WF_vars(\E c \in CallsIn(checks) : c.path = p /\ GetTitleInfoDone(c))
        /\ WF_vars(\E c \in CallsIn(checks) :
                       /\ c.path = p
                       /\ \/ \E code \in ExitCodes : GenClose(c, code, code = 0)
                          \/ GenError(c)
                          \/ GenTimeout(c, FALSE))

SpecMount == InitMount /\ [][NextMount]_vars /\ FairMount

(***************************************************************************)
(* Scenarios with SessionFolders folders, each with one video.             *)
(***************************************************************************)
SessionPaths == 1..SessionFolders

\* a stored mapping with an entry for every folder of the session
StoredThumbs == [p \in Paths |-> IF p \in SessionPaths
                                 THEN ThumbnailPathOf(VideoFile(p, 1)) ELSE None]

\* a stored list of MaxLastPlayed entries, the oldest of them folder 2
StoredLastPlayed == [i \in 1..MaxLastPlayed |-> MaxLastPlayed + 2 - i]

SessionDisk ==
    /\ diskFolders = SessionPaths
    /\ repFile = [p \in Paths |-> IF p \in SessionPaths THEN 1 ELSE None]

(***************************************************************************)
(* Stored state of the cache and delete scenarios: the thumbnail of        *)
(* folder 2 is stored and on disk, the other folders have none; folders 2  *)
(* and 1 were played before.                                               *)
(***************************************************************************)
PartlyCached ==
    /\ SessionDisk
    /\ thumbFiles = {StoredThumbs[2]}
    /\ lsThumbs = ThumbsRecord([EmptyThumbs EXCEPT ![2] = StoredThumbs[2]])
    /\ lsLastPlayed = LastPlayedRecord(<<2, 1>>)

(***************************************************************************)
(* Cache scenario: thumbnails are generated while videos are added.  The   *)
(* generations of folder 1 are recorded.                                   *)
(***************************************************************************)
InitCache ==
    /\ Constructed
    /\ AllRootsReadable
    /\ Observing({ThumbnailPathOf(VideoFile(1, v)) : v \in 1..MaxVideo})
    /\ ObservingOutcomes({})
    /\ ObservingLate({})
    /\ ObservingEvents(FALSE)
    /\ PartlyCached

NextCache ==
    \/ LoadStored
    \/ LoadFolders
    \/ Render
    \/ BlobWriteDone
    \/ \E p \in Paths : Visible(p)
    \/ \E c \in CallsIn(checks) : GetTitleInfoDone(c)
    \/ \E c \in CallsIn(checks), code \in ExitCodes, wrote \in BOOLEAN : GenClose(c, code, wrote)
    \/ \E c \in CallsIn(checks) : GenError(c)
    \/ \E c \in CallsIn(checks), wrote \in BOOLEAN : GenTimeout(c, wrote)
    \/ \E p \in Paths : AddVideo(p)

SpecCache == InitCache /\ [][NextCache]_vars

\* the cache scenario with the result of every visibility event recorded
InitCacheEvents ==
    /\ Constructed
    /\ AllRootsReadable
    /\ Observing({})
    /\ ObservingOutcomes({})
    /\ ObservingLate({})
    /\ ObservingEvents(TRUE)
    /\ PartlyCached

SpecCacheEvents == InitCacheEvents /\ [][NextCache]_vars

(***************************************************************************)
(* Delete scenario: thumbnails are generated while the user deletes; the   *)
(* removal of a thumbnail file succeeds.                                   *)
(***************************************************************************)
InitDelete ==
    /\ Constructed
    /\ AllRootsReadable
    /\ Observing({})
    /\ ObservingOutcomes({})
    /\ ObservingLate({})
    /\ ObservingEvents(FALSE)
    /\ PartlyCached

NextDelete ==
    \/ LoadStored
    \/ LoadFolders
    \/ Render
    \/ BlobWriteDone
    \/ \E p \in Paths : Visible(p)
    \/ \E c \in CallsIn(checks) : GetTitleInfoDone(c)
    \/ \E c \in CallsIn(checks), code \in ExitCodes, wrote \in BOOLEAN : GenClose(c, code, wrote)
    \/ \E c \in CallsIn(checks) : GenError(c)
    \/ \E c \in CallsIn(checks), wrote \in BOOLEAN : GenTimeout(c, wrote)
    \/ \E p \in Paths : DeleteStart(p)
    \/ \E c \in CallsIn(deletes) : DeleteDeclined(c)
    \/ \E c \in CallsIn(deletes) : DeleteConfirmed(c)
    \/ \E c \in CallsIn(deletes) : DeleteRmDone(c)
    \/ \E c \in CallsIn(deletes) : DeleteRmFailed(c)
    \/ DeleteStoreDone
    \/ \E c \in CallsIn(deletes) : DeleteThumbRm(c, TRUE)

SpecDelete == InitDelete /\ [][NextDelete]_vars

(***************************************************************************)
(* Recents scenario: every folder has its thumbnail stored and on disk, so *)
(* no generation is needed; the stored last-played list is absent or full; *)
(* the user plays and deletes folders.                                     *)
(***************************************************************************)
InitRecents ==
    /\ Constructed
    /\ AllRootsReadable
    /\ Observing({})
    /\ ObservingOutcomes({})
    /\ ObservingLate({})
    /\ ObservingEvents(FALSE)
    /\ SessionDisk
    /\ thumbFiles = {StoredThumbs[p] : p \in SessionPaths}
    /\ lsThumbs = ThumbsRecord(StoredThumbs)
    /\ lsLastPlayed \in {AbsentLastPlayed, LastPlayedRecord(StoredLastPlayed)}

NextRecents ==
    \/ LoadStored
    \/ LoadFolders
    \/ Render
    \/ BlobWriteDone
    \/ \E p \in Paths : Play(p)
    \/ \E c \in CallsIn(plays) : PlayResolved(c)
    \/ SaveLastPlayedDone
    \/ ReopenWindow
    \/ \E p \in Paths : DeleteStart(p)
    \/ \E c \in CallsIn(deletes) : DeleteDeclined(c)
    \/ \E c \in CallsIn(deletes) : DeleteConfirmed(c)
    \/ \E c \in CallsIn(deletes) : DeleteRmDone(c)
    \/ \E c \in CallsIn(deletes) : DeleteRmFailed(c)
    \/ DeleteStoreDone
    \/ \E c \in CallsIn(deletes), ok \in BOOLEAN : DeleteThumbRm(c, ok)

SpecRecents == InitRecents /\ [][NextRecents]_vars

(***************************************************************************)
(* Load scenario: the stored thumbnails record is absent, unreadable, or a *)
(* mapping whose files may be gone; thumbnails are then generated.         *)
(***************************************************************************)
InitLoad ==
    /\ Constructed
    /\ AllRootsReadable
    /\ Observing({})
    /\ ObservingOutcomes({})
    /\ ObservingLate({})
    /\ ObservingEvents(FALSE)
    /\ SessionDisk
    /\ lsThumbs \in {AbsentThumbs, CorruptThumbs, NoMapThumbs, ThumbsRecord(StoredThumbs)}
    /\ thumbFiles \in {{}, {ThumbnailPathOf(VideoFile(1, 1))}}
    /\ lsLastPlayed \in {AbsentLastPlayed, LastPlayedRecord(<<2, 1>>)}

NextLoad ==
    \/ LoadStored
    \/ LoadFolders
    \/ Render
    \/ BlobWriteDone
    \/ \E p \in Paths : Visible(p)
    \/ \E c \in CallsIn(checks) : GetTitleInfoDone(c)
    \/ \E c \in CallsIn(checks), code \in ExitCodes, wrote \in BOOLEAN : GenClose(c, code, wrote)
    \/ \E c \in CallsIn(checks) : GenError(c)
    \/ \E c \in CallsIn(checks), wrote \in BOOLEAN : GenTimeout(c, wrote)

SpecLoad == InitLoad /\ [][NextLoad]_vars

(***************************************************************************)
(* Play scenario: folder 1 has a video, folder 2 has none until one is     *)
(* added; nothing is stored but possibly the recents list.  The configured *)
(* directories may also be empty, so that the scan returns no folder.      *)
(***************************************************************************)
InitPlay ==
    /\ Constructed
    /\ AllRootsReadable
    /\ Observing({})
    /\ ObservingOutcomes({})
    /\ ObservingLate({})
    /\ ObservingEvents(FALSE)
    /\ diskFolders \in {SessionPaths, {}}
    /\ repFile = [p \in Paths |-> IF p = 1 THEN 1 ELSE None]
    /\ thumbFiles = {}
    /\ lsThumbs = AbsentThumbs
    /\ lsLastPlayed \in {AbsentLastPlayed, LastPlayedRecord(<<2, 1>>)}

NextPlay ==
    \/ LoadStored
    \/ LoadFolders
    \/ Render
    \/ \E p \in Paths : Play(p)
    \/ \E c \in CallsIn(plays) : PlayResolved(c)
    \/ SaveLastPlayedDone
    \/ ReopenWindow
    \/ \E p \in Paths : AddVideo(p)

SpecPlay == InitPlay /\ [][NextPlay]_vars

(***************************************************************************)
(* Queue scenario: the program of mpv-launcher.tsx.  The stored mapping    *)
(* is absent or has entries whose files may be gone; thumbnails are        *)
(* generated through the ThumbnailQueue with every outcome of ffmpeg.  The *)
(* generations of folder 1 and their outcomes are recorded.  There is one  *)
(* folder more than the queue runs at a time.                              *)
(***************************************************************************)
QueuePaths == 1..(MaxConcurrent + 1)

InitQueue ==
    /\ Constructed
    /\ AllRootsReadable
    /\ Observing({ThumbnailPathOf(VideoFile(1, v)) : v \in 1..MaxVideo})
    /\ ObservingOutcomes({ThumbnailPathOf(VideoFile(1, v)) : v \in 1..MaxVideo})
    /\ ObservingLate({})
    /\ ObservingEvents(FALSE)
    /\ diskFolders = QueuePaths
    /\ repFile = [p \in Paths |-> IF p \in QueuePaths THEN 1 ELSE None]
    /\ lsThumbs \in {AbsentThumbs, CorruptThumbs, NoMapThumbs,
                     ThumbsRecord([EmptyThumbs EXCEPT ![2] = StoredThumbs[2]])}
    /\ thumbFiles = {}
    /\ lsLastPlayed = AbsentLastPlayed

NextQueue ==
    \/ initialLoad
    \/ refreshFoldersSilent
    \/ Render
    \/ BlobWriteDone
    \/ \E p \in Paths : handleItemVisible(p)
    \/ \E c \in CallsIn(checks) : FindFirstVideoFileDone(c)
    \/ ProcessNextTimer
    \/ \E c \in CallsIn(checks) : QueueFindDone(c)
    \/ \E c \in CallsIn(checks), code \in ExitCodes, wrote \in BOOLEAN :
          QueueGenClose(c, code, wrote)
    \/ \E c \in CallsIn(checks), outcome \in {"error", "timeout"}, wrote \in BOOLEAN :
          QueueGenFailed(c, outcome, wrote)
    \/ \E verify, hasUpdates \in BOOLEAN : BackgroundCheck(verify, hasUpdates)
    \/ BackgroundPreload

SpecQueue == InitQueue /\ [][NextQueue]_vars

\* Scheduling of the queue: a pending processNext timer fires, a pending
\* directory read completes, and every ffmpeg run ends in one of its
\* outcomes (its own 10 s timer at the latest).
FairQueue ==
    /\ WF_vars(ProcessNextTimer)
    /\ \A p \in Paths :
        /\ WF_vars(\E c \in CallsIn(checks) : c.path = p /\ QueueFindDone(c))
        /\ WF_vars(\E c \in CallsIn(checks) :
                       /\ c.path = p
                       /\ \/ \E code \in ExitCodes, wrote \in BOOLEAN :
                                QueueGenClose(c, code, wrote)
                          \/ \E outcome \in {"error", "timeout"}, wrote \in BOOLEAN :
                                QueueGenFailed(c, outcome, wrote))

SpecQueueLive == InitQueue /\ [][NextQueue]_vars /\ FairQueue

(***************************************************************************)
(* Play scenario of mpv-launcher.tsx: folder 1 has a video and was played  *)
(* before or not, the other folders have no video and were never played.   *)
(***************************************************************************)
PlayedBefore == <<1>>

InitPlayMedia ==
    /\ Constructed
    /\ AllRootsReadable
    /\ Observing({})
    /\ ObservingOutcomes({})
    /\ ObservingLate({})
    /\ ObservingEvents(FALSE)
    /\ diskFolders = SessionPaths
    /\ repFile = [p \in Paths |-> IF p = 1 THEN 1 ELSE None]
    /\ thumbFiles = {}
    /\ lsThumbs = AbsentThumbs
    /\ lsLastPlayed \in {AbsentLastPlayed, LastPlayedRecord(PlayedBefore)}

NextPlayMedia ==
    \/ initialLoad
    \/ refreshFoldersSilent
    \/ Render
    \/ \E p \in Paths : playMediaFolder(p)
    \/ \E c \in CallsIn(plays) : playMediaFolderResolved(c)
    \/ SaveLastPlayedDone
    \/ ReopenWindow

SpecPlayMedia == InitPlayMedia /\ [][NextPlayMedia]_vars

(***************************************************************************)
(* Scan scenario: one folder with a video in each of the three configured  *)
(* directories, any of which may be unreadable; nothing is stored.         *)
(***************************************************************************)
ScanPaths == 1..3

InitScan ==
    /\ Constructed
    /\ Observing({})
    /\ ObservingOutcomes({})
    /\ ObservingLate({})
    /\ ObservingEvents(FALSE)
    /\ unreadableRoots \in SUBSET Categories
    /\ diskFolders = ScanPaths
    /\ repFile = [p \in Paths |-> IF p \in ScanPaths THEN 1 ELSE None]
    /\ thumbFiles = {}
    /\ lsThumbs = AbsentThumbs
    /\ lsLastPlayed = AbsentLastPlayed

SpecScan == InitScan /\ [][NextPlay]_vars

(***************************************************************************)
(* Late event scenario (mpv-launcher.tsx): nothing is stored, thumbnails   *)
(* are generated through the ThumbnailQueue with every outcome of ffmpeg,  *)
(* and the events that arrive after the runs for folder 1 have settled are *)
(* followed.                                                               *)
(***************************************************************************)
InitLate ==
    /\ Constructed
    /\ AllRootsReadable
    /\ Observing({})
    /\ ObservingOutcomes({ThumbnailPathOf(VideoFile(1, v)) : v \in 1..MaxVideo})
    /\ ObservingLate({ThumbnailPathOf(VideoFile(1, v)) : v \in 1..MaxVideo})
    /\ ObservingEvents(FALSE)
    /\ SessionDisk
    /\ thumbFiles = {}
    /\ lsThumbs = AbsentThumbs
    /\ lsLastPlayed = AbsentLastPlayed

NextLate ==
    \/ initialLoad
    \/ refreshFoldersSilent
    \/ Render
    \/ BlobWriteDone
    \/ \E p \in Paths : handleItemVisible(p)
    \/ \E c \in CallsIn(checks) : FindFirstVideoFileDone(c)
    \/ ProcessNextTimer
    \/ \E c \in CallsIn(checks) : QueueFindDone(c)
    \/ \E c \in CallsIn(checks), code \in ExitCodes, wrote \in BOOLEAN :
          QueueGenClose(c, code, wrote)
    \/ \E c \in CallsIn(checks), outcome \in {"error", "timeout"}, wrote \in BOOLEAN :
          QueueGenFailed(c, outcome, wrote)
    \/ \E f \in ThumbPaths, code \in ExitCodes : QueueLateClose(f, code)
    \/ \E f \in ThumbPaths : QueueLateTimer(f)

SpecLate == InitLate /\ [][NextLate]_vars

(***************************************************************************)
(* Outcome scenario: nothing is stored and no thumbnail file exists; every *)
(* thumbnail is generated, with every outcome of ffmpeg.  The generations  *)
(* of folder 1, their outcomes and the events that arrive after they have  *)
(* settled are recorded; a write of the blob may be rejected.              *)
(***************************************************************************)
InitOutcome ==
    /\ Constructed
    /\ AllRootsReadable
    /\ Observing({ThumbnailPathOf(VideoFile(1, v)) : v \in 1..MaxVideo})
    /\ ObservingOutcomes({ThumbnailPathOf(VideoFile(1, v)) : v \in 1..MaxVideo})
    /\ ObservingLate({ThumbnailPathOf(VideoFile(1, v)) : v \in 1..MaxVideo})
    /\ ObservingEvents(FALSE)
    /\ SessionDisk
    /\ thumbFiles = {}
    /\ lsThumbs = AbsentThumbs
    /\ lsLastPlayed = AbsentLastPlayed

NextOutcome ==
    \/ LoadStored
    \/ LoadFolders
    \/ Render
    \/ BlobWriteDone
    \/ SaveThumbnailsCacheRejected
    \/ \E p \in Paths : Visible(p)
    \/ \E c \in CallsIn(checks) : GetTitleInfoDone(c)
    \/ \E c \in CallsIn(checks), code \in ExitCodes, wrote \in BOOLEAN : GenClose(c, code, wrote)
    \/ \E c \in CallsIn(checks) : GenError(c)
    \/ \E c \in CallsIn(checks), wrote \in BOOLEAN : GenTimeout(c, wrote)
    \/ \E f \in ThumbPaths : GenLateEvent(f)

SpecOutcome == InitOutcome /\ [][NextOutcome]_vars

(***************************************************************************)
(* Properties of the gate.                                                 *)
(***************************************************************************)
Admitted == CallsIn(checks)
Generating == {c \in CallsIn(checks) : c.pc = "gen"}
NumGenerating == BagCardinality([c \in Generating |-> CopiesIn(c, checks)])
NeedsThumbnail(p) == p \in rFolders /\ rThumbnails[p] = None /\ p \notin processingThumbnails

\* C1: at most 3 generation processes run at once, and a visibility event
\* that finds 3 active generations is refused on the spot: it is logged as
\* "queue full" and neither marks, counts nor queues anything.
C1_ConcurrencyCeiling ==
    /\ [](/\ NumGenerating <= MaxActiveGenerations
          /\ activeGenerations <= MaxActiveGenerations
          /\ BagCardinality(checks) <= MaxActiveGenerations)
    /\ [][\A p \in Paths :
            (NeedsThumbnail(p) /\ activeGenerations >= MaxActiveGenerations /\ Visible(p))
            => (lastVisible' = "full" /\ UNCHANGED <<gateVars, checks, thumbnails, blobWrites>>)]_vars

\* three processes run, a fourth folder needs a thumbnail and was just refused
C1_Witness ==
    /\ NumGenerating = MaxActiveGenerations
    /\ lastVisible = "full"
    /\ \E p \in Paths : NeedsThumbnail(p)

\* C19: a visibility event for a folder without thumbnail that is refused,
\* because the path is in flight or 3 generations are active, changes
\* neither the counter, the in-flight set, the thumbnails map nor its stored
\* record, shows no error, and starts no invocation and no process.
C19_RefusalChangesNothing ==
    [][\A p \in Paths :
        (/\ rThumbnails[p] = None
         /\ p \in processingThumbnails \/ activeGenerations = MaxActiveGenerations
         /\ Visible(p))
        => /\ lastVisible' \in {"skipped", "full"}
           /\ UNCHANGED <<activeGenerations, processingThumbnails, thumbnails, lsThumbs,
                          blobWrites, checks, toasts, thumbFiles, genStarted>>]_vars

\* a folder in flight was just refused while a slot was free, and the
\* folder is still the only one marked
C19_Witness ==
    /\ lastVisible = "skipped"
    /\ activeGenerations = 1
    /\ \E p \in Paths : processingThumbnails = {p} /\ rThumbnails[p] = None

\* C2: at no time are two admitted checkThumbnail invocations of the same
\* folder path in progress.
C2_OneAdmissionPerPath ==
    \A c1 \in Admitted :
        /\ CopiesIn(c1, checks) = 1
        /\ \A c2 \in Admitted : c1.path = c2.path => c1 = c2

\* a visibility event for a folder that is in flight was turned away
C2_Witness ==
    /\ lastVisible = "skipped"
    /\ \E c \in Admitted : rThumbnails[c.path] = None /\ c.path \in rFolders

\* C3: activeGenerations = |processingThumbnails| = number of admitted
\* invocations that have not returned; it is never negative and is 0 when
\* no invocation is in progress.
C3_PermitAccounting ==
    /\ activeGenerations = Cardinality(processingThumbnails)
    /\ activeGenerations = BagCardinality(checks)
    /\ processingThumbnails = {c.path : c \in Admitted}
    /\ activeGenerations >= 0
    /\ (checks = EmptyBag => activeGenerations = 0)

\* invocations were admitted and all of them have returned: one found no
\* video, one adopted an existing file, one generated
C3_Witness ==
    /\ checks = EmptyBag
    /\ lastVisible = "admitted"
    /\ repFile[1] = None
    /\ thumbnails[2] # None
    /\ thumbnails[3] # None

(***************************************************************************)
(* Properties of the cache.                                                *)
(***************************************************************************)
\* the thumbnail path of the folder's present representative video
CurrentThumb(p) == ThumbnailPathOf(VideoFile(p, repFile[p]))

\* C4 as stated: over the whole run at most one generation process is
\* started for a folder whose representative video does not change.
C4_AtMostOneGeneration ==
    \A f \in DOMAIN genStarted : genStarted[f] <= 1

\* C4: for one representative video of a folder, never two generation
\* processes run at once, and once a generation has succeeded no further
\* generation process is started for it, whatever visibility events follow
\* (also those handled with a stale snapshot of the thumbnails map); a
\* failed generation may be followed by another attempt.
C4_NoGenerationAfterSuccess ==
    /\ [](\A c1, c2 \in Generating : c1.path = c2.path => c1 = c2 /\ CopiesIn(c1, checks) = 1)
    /\ [][\A c \in CallsIn(checks') :
            (c.pc = "gen" /\ c \notin CallsIn(checks))
            => ThumbnailPathOf(VideoFile(c.path, c.file)) \notin genSucceeded]_vars

\* a generation failed, a second one succeeded, and a later visibility event
\* handled with the stale snapshot was admitted again
C4_Witness ==
    \E f \in genSucceeded :
        /\ genStarted[f] >= 2
        /\ f = CurrentThumb(1)
        /\ thumbnails[1] = f
        /\ 1 \in processingThumbnails

\* C5 as stated: once a generation for a folder has succeeded and its entry
\* is in the thumbnails map, no later visibility event admits the folder to
\* the gate again (the representative video and the thumbnail file are
\* unchanged, the folder is not deleted).
C5_CachedNeverReadmitted ==
    \A p \in diskFolders :
        (/\ repFile[p] # None
         /\ CurrentThumb(p) \in genSucceeded
         /\ CurrentThumb(p) \in thumbFiles
         /\ thumbnails[p] = CurrentThumb(p))
        => p \notin processingThumbnails

\* C6: every started generation settles and every admitted invocation
\* releases its permit, also when the ffmpeg process never exits.
C6_EveryGenerationSettles ==
    \A p \in Paths :
        /\ (\E c \in Generating : c.path = p) ~> ~(\E c \in Generating : c.path = p)
        /\ (p \in processingThumbnails) ~> (p \notin processingThumbnails)

\* the gate is full of running generations
C6_Witness == NumGenerating = MaxActiveGenerations /\ activeGenerations = MaxActiveGenerations

\* the entry of folder p was made for another video than its present one
EntryOutdated(p) ==
    /\ p \in diskFolders
    /\ thumbnails[p] # None
    /\ rThumbnails[p] = thumbnails[p]
    /\ thumbnails[p] # CurrentThumb(p)

\* C7 as stated: when the representative video of a folder with an entry
\* has changed, the next visibility event for the folder drops the entry and
\* requests a generation for the new video.
C7_ChangedVideoRegenerated ==
    [][\A p \in Paths :
        (EntryOutdated(p) /\ Visible(p))
        => (p \in processingThumbnails' /\ thumbnails'[p] # thumbnails[p])]_vars

(***************************************************************************)
(* Properties of delete.                                                   *)
(***************************************************************************)
\* the confirmed delete of folder p has removed the folder and has run to
\* its end, and no write to the store is in flight
DeleteCompleted(p) ==
    /\ p \in SessionPaths \ diskFolders
    /\ \A c \in CallsIn(deletes) : c.folder # p
    /\ \A i \in 1..Len(lastWrites) : lastWrites[i].folder # p
    /\ lastWrites = <<>>
    /\ blobWrites = <<>>

InList(p, list) == \E i \in 1..Len(list) : list[i] = p

\* C8 as stated: after a confirmed delete of a folder has completed, the
\* folder is in none of the folder list, the recents list and its stored
\* record, the thumbnails map and its stored record, and the thumbnail file
\* its entry named at the time of the delete is gone from disk.
C8_DeleteLeavesNothing ==
    \A p \in Paths :
        DeleteCompleted(p)
        => /\ p \notin folders
           /\ ~InList(p, lastPlayed)
           /\ ~InList(p, lsLastPlayed.list)
           /\ thumbnails[p] = None
           /\ lsThumbs.kind = "ok" => lsThumbs.map[p] = None
           /\ ThumbnailPathOf(VideoFile(p, repFile[p])) \in deletedThumbs
              => ThumbnailPathOf(VideoFile(p, repFile[p])) \notin thumbFiles

(***************************************************************************)
(* Properties of the load and of the last-played list.                     *)
(***************************************************************************)
\* C9 as stated: with the stored thumbnails record absent, unparseable or
\* without a thumbnails mapping, the load does not fail: the map is empty
\* when the folder scan starts, and the scan ends the loading state.
C9_BadRecordLoadsEmpty ==
    (lsThumbs.kind \in {"absent", "corrupt", "nomap"} /\ loadPc # "start")
    => /\ loadPc \in {"scan", "done"}
       /\ loadPc = "scan" => thumbnails = EmptyThumbs
       /\ loadPc = "done" => ~isLoading

IsRing(list) ==
    /\ Len(list) <= MaxLastPlayed
    /\ \A i, j \in 1..Len(list) : list[i] = list[j] => i = j

\* C10: the last-played list in memory, the stored record and every write
\* of it in flight hold at most 5 entries and no folder path twice.
C10_RecentsRing ==
    /\ IsRing(lastPlayed)
    /\ IsRing(lsLastPlayed.list)
    /\ \A i \in 1..Len(lastWrites) : IsRing(lastWrites[i].val)

\* the stored list was full; a folder outside it was played and another
\* folder was deleted: the list stays at 5, most recent first
C10_Witness ==
    /\ Len(lastPlayed) = MaxLastPlayed
    /\ lsLastPlayed.kind = "ok"
    /\ lsLastPlayed.list = lastPlayed
    /\ lastPlayed[1] = 1
    /\ nActions >= 2
    /\ toasts = "deleted"

\* C11 as stated: recording a play of a folder yields that folder followed
\* by the previous list without it, in unchanged order, cut to 5 entries.
C11_PlayPrependsToList ==
    [][(/\ lastWrites # <<>>
        /\ Head(lastWrites).op = "play"
        /\ SaveLastPlayedDone)
       => lastPlayed' = UpdatedLastPlayed(lastPlayed, Head(lastWrites).folder)]_vars

(***************************************************************************)
(* Properties of the outcome of a generation.                              *)
(***************************************************************************)
\* the thumbnail path an invocation generates
OutputOf(c) == ThumbnailPathOf(VideoFile(c.path, c.file))

\* the generation awaited by invocation c settles in this step
Settles(c) == c.pc = "gen" /\ CopiesIn(c, checks') < CopiesIn(c, checks)

\* C12: a generation reports success and its invocation writes the entry
\* exactly when ffmpeg exited with 0 and the output file exists then; after
\* a non-zero exit, an exit without output, a spawn error or a timeout the
\* invocation writes nothing to the thumbnails map or its stored record.
C12_SuccessNeedsExitZeroAndFile ==
    [][\A c \in Generating :
        (Settles(c) /\ OutputOf(c) \in DOMAIN genOutcome)
        => IF genOutcome'[OutputOf(c)] = "exit0" /\ OutputOf(c) \in thumbFiles'
           THEN /\ thumbnails'[c.path] = OutputOf(c)
                /\ OutputOf(c) \in genSucceeded'
           ELSE /\ UNCHANGED <<thumbnails, lsThumbs, blobWrites>>
                /\ genSucceeded' = genSucceeded]_vars

\* the last generation of the thumbnail of folder p's current video failed
Failed(p) ==
    /\ CurrentThumb(p) \in DOMAIN genOutcome
    /\ genOutcome[CurrentThumb(p)] \in {"exit1", "error", "timeout"}

\* an invocation for folder p is in progress or waits in the queue
InProgress(p) ==
    \/ \E c \in CallsIn(checks) : c.path = p
    \/ \E i \in DOMAIN queue : queue[i] = p

\* C18 as stated: when the generation for a folder has failed, nothing of it
\* is in progress and the folder has no entry, no in-flight marker and no
\* visited mark of the folder is left, so that the guards of the visibility
\* handler let its next event in.
C18_FailedFolderIsRetried ==
    \A p \in rFolders :
        (Failed(p) /\ thumbnails[p] = None /\ rThumbnails[p] = None /\ ~InProgress(p))
        => /\ ~AlreadyHandled(p)
           /\ ~Visited(p)
           /\ p \notin processingPaths

\* a generation of folder 1 failed or timed out, left its file behind, and
\* no entry was written
C12_Witness ==
    \E f \in DOMAIN genOutcome :
        /\ genOutcome[f] \in {"exit1", "timeout"}
        /\ f \in thumbFiles
        /\ f \notin genSucceeded
        /\ thumbnails[1] = None
        /\ 1 \notin processingThumbnails

\* C17 as stated: every entry of the thumbnails map that was created in
\* the session points to a file of a generation that reported success.
C17_EntriesOnlyFromSuccess ==
    \A f \in DOMAIN genOutcome :
        (\E p \in Paths : thumbnails[p] = f) => f \in genSucceeded

(***************************************************************************)
(* Properties of the initial load.                                         *)
(***************************************************************************)
\* every entry of the mapping points to a file on disk
PointsToFiles(map) == \A p \in Paths : map[p] # None => map[p] \in thumbFiles

\* C13 as stated: once the stored records are loaded, every entry of the
\* thumbnails map, in the state and in what render and the title actions
\* look up, points to a thumbnail file on disk; stored entries whose file
\* is missing are not in the map.
C13_LoadedEntriesExist ==
    loadPc # "start"
    => /\ PointsToFiles(thumbnails)
       /\ PointsToFiles(rThumbnails)
       /\ PointsToFiles(aThumbnails)

(***************************************************************************)
(* Properties of play.                                                     *)
(***************************************************************************)
\* a write of saveLastPlayed is issued and has not completed
PlayWritePending(writes) == \E i \in DOMAIN writes : writes[i].op = "play"

\* the promise of some play call completes in this step
PlayReturns == \E c \in CallsIn(plays) : plays' = DropCall(plays, c)

\* C14 as stated: when play returns, and when the main window is closed,
\* no write of the recents list is pending.
C14_WriteDoneBeforePlayReturns ==
    [][(PlayReturns \/ (windowClosed' /\ ~windowClosed))
       => ~PlayWritePending(lastWrites')]_vars

\* C15: a play whose folder has no video file when getTitleInfo reads it
\* spawns no player, leaves the main window open, records nothing and shows
\* the failure toast.
C15_NoVideoNoLaunch ==
    [][\A c \in CallsIn(plays) :
        (plays' = DropCall(plays, c) /\ TitleInfoFile(c.folder) = None)
        => /\ toasts' = "playError"
           /\ UNCHANGED <<mpvLaunches, windowClosed, lastWrites>>]_vars

\* the play of folder 2, which has no video, has ended with the failure
\* toast; no player was started and the window is open
C15_Witness ==
    /\ toasts = "playError"
    /\ repFile[2] = None
    /\ CallsIn(plays) = {}
    /\ mpvLaunches = {}
    /\ ~windowClosed
    /\ nActions > 0

(***************************************************************************)
(* Properties of delete.                                                   *)
(***************************************************************************)
\* what a delete can remove: disk, state and stored records with their
\* pending writes
DeleteTargets == <<diskFolders, repFile, thumbFiles, folders, lastPlayed, thumbnails,
                   lsThumbs, lsLastPlayed, blobWrites, lastWrites>>

\* C16: showing the confirmation and declining it change neither the
\* folder on disk, the folder list, the recents list, the thumbnails map,
\* the thumbnail files nor the two stored records.
C16_DeclinedDeleteChangesNothing ==
    [][\A c \in CallsIn(deletes) \cup CallsIn(deletes') :
        (/\ c.pc = "confirm"
         /\ \/ deletes' = DropCall(deletes, c)
            \/ deletes' = AddCall(deletes, c))
        => UNCHANGED DeleteTargets]_vars

\* the delete of a folder that has a thumbnail and is in the recents list
\* was declined: everything is still there
C16_Witness ==
    /\ nActions > 0
    /\ CallsIn(deletes) = {}
    /\ CallsIn(plays) = {}
    /\ toasts = "none"
    /\ mpvLaunches = {}
    /\ diskFolders = SessionPaths
    /\ folders = SessionPaths
    /\ lastPlayed # <<>>
    /\ thumbnails = StoredThumbs

(***************************************************************************)
(* Properties of the grid.                                                 *)
(***************************************************************************)
\* folder p is in the grid without thumbnail and was never admitted: its
\* effect found the gate full
RefusedAtCeiling(p) ==
    /\ p \in rFolders
    /\ rThumbnails[p] = None
    /\ thumbnails[p] = None
    /\ p \notin processingThumbnails
    /\ CurrentThumb(p) \in DOMAIN genStarted
    /\ genStarted[CurrentThumb(p)] = 0

\* C20 as stated: every folder refused at the ceiling is admitted later,
\* after slots have become free, without any action of the user, also when
\* the generations that held the slots all failed.
C20_RefusedEventuallyAdmitted ==
    \A p \in Paths : RefusedAtCeiling(p) ~> (p \in processingThumbnails)

(***************************************************************************)
(* Properties of the recents list under failing plays and reconciliation.  *)
(***************************************************************************)
\* the paths of a list
Entries(list) == {list[i] : i \in 1..Len(list)}

\* C21: once its play has ended, a folder is in the recents list, in
\* memory or in the stored record or in a write on its way to them, only if
\* it was there at the start or a play has launched the player for it; a
\* failed play leaves the list as it was.
C21_RecentsOnlyFromLaunchedPlay ==
    \A p \in Paths :
        (/\ \/ p \in Entries(lastPlayed)
            \/ p \in Entries(lsLastPlayed.list)
            \/ \E i \in 1..Len(lastWrites) : p \in Entries(lastWrites[i].val)
         /\ \A c \in CallsIn(plays) : c.folder # p)
        => (p \in Entries(PlayedBefore) \/ p \in mpvLaunches)

\* C22: once the load and a folder scan that found folders have completed,
\* the recents list in memory has no entry whose path is not a folder.
C22_RecentsOnlyScannedFolders ==
    (loadPc = "done" /\ folders # {}) => Entries(lastPlayed) \subseteq folders

\* C23: while the folder list is empty, because the scan has not completed
\* or has found nothing, no step raises an error or changes the stored
\* recents record, and the list in memory changes only by being loaded
\* from that record; in particular the step that delivers the folders
\* finds and leaves every entry.
C23_EmptyFolderSetKeepsRecents ==
    [][folders = {}
        => /\ lsLastPlayed' = lsLastPlayed
           /\ lastWrites' = lastWrites
           /\ \/ lastPlayed' = lastPlayed
              \/ loadPc = "start" /\ lastPlayed' = lsLastPlayed.list
           /\ loadPc' # "crashed"
           /\ toasts' = toasts]_vars

\* the scan has found no folder, the empty grid is rendered, and the two
\* stored entries are in the list
C23_Witness ==
    /\ loadPc = "done"
    /\ folders = {}
    /\ ~renderPending
    /\ lastPlayed = <<2, 1>>
    /\ lsLastPlayed = LastPlayedRecord(<<2, 1>>)

C26_WriteFailureHandledInSave == saveFailure # "unhandled"

(***************************************************************************)
(* Failures of delete.                                                     *)
(***************************************************************************)
\* C27: when the rm of the folder fails after the confirmation, the failure
\* toast is shown and the folder list, the recents list, the thumbnails
\* map, the thumbnail files and both stored records with their pending
\* writes are as before; when only the rm of the thumbnail file fails, the
\* toast shown is left as it is.
C27_FailedDeleteChangesNothing ==
    [][\A c \in CallsIn(deletes) :
        /\ (/\ c.pc = "rm"
            /\ deletes' = DropCall(deletes, c)
            /\ c.folder \in diskFolders')
           => /\ toasts' = "deleteFailed"
              /\ UNCHANGED <<folders, lastPlayed, thumbnails, thumbFiles, lsThumbs,
                             lsLastPlayed, blobWrites, lastWrites>>
        /\ (/\ c.pc = "rmThumb"
            /\ deletes' = DropCall(deletes, c)
            /\ c.thumb \in thumbFiles')
           => UNCHANGED <<toasts, folders, lastPlayed, thumbnails, lsThumbs,
                          lsLastPlayed, blobWrites, lastWrites>>]_vars

\* the only delete triggered has failed: the failure toast is shown and
\* every folder is still on disk, in the list and in the thumbnails map
C27_Witness ==
    /\ toasts = "deleteFailed"
    /\ nActions = 1
    /\ CallsIn(deletes) = {}
    /\ diskFolders = SessionPaths
    /\ folders = SessionPaths
    /\ thumbnails = StoredThumbs
    /\ thumbFiles = {StoredThumbs[p] : p \in SessionPaths}
    /\ lsThumbs = ThumbsRecord(StoredThumbs)

\* C28: a generation for a folder that settles after the delete of the
\* folder has completed does not re-create what the delete removed: the
\* folder has no entry in the thumbnails map afterwards, no write of the
\* blob is issued, and no thumbnail file of the folder appears on disk.
C28_GenerationAfterDeleteAddsNothing ==
    [][\A c \in Generating :
        (/\ Settles(c)
         /\ DeleteCompleted(c.path)
         /\ thumbnails[c.path] = None)
        => /\ thumbnails'[c.path] = None
           /\ blobWrites' = <<>>
           /\ thumbFiles' \subseteq thumbFiles]_vars

(***************************************************************************)
(* Overlapping updates of the last-played list.                            *)
(***************************************************************************)
\* C29: once every play and delete has finished and every write has
\* completed, every folder that was played and still exists is in the
\* last-played list, and no deleted folder is.
C29_NoLostRecentsUpdate ==
    (/\ CallsIn(plays) = {}
     /\ CallsIn(deletes) = {}
     /\ lastWrites = <<>>)
    => /\ \A p \in mpvLaunches \cap diskFolders : InList(p, lastPlayed)
       /\ \A p \in SessionPaths \ diskFolders : ~InList(p, lastPlayed)

(***************************************************************************)
(* Properties of the folder scan.                                          *)
(***************************************************************************)
\* C30: the scan of the load ends the loading state whatever directories
\* cannot be read; for each unreadable directory the failure toast is shown
\* and no folder of its category is in the folder list, and every folder of
\* a readable directory is in the folder list.
C30_UnreadableRootIsSkipped ==
    [][(loadPc = "scan" /\ loadPc' # loadPc)
       => /\ loadPc' = "done"
          /\ ~isLoading'
          /\ scanErrors' = unreadableRoots
          /\ unreadableRoots # {} => toasts' = "loadError"
          /\ \A p \in diskFolders :
                p \in folders' <=> Category(p) \notin unreadableRoots
          /\ folders' \subseteq diskFolders]_vars

\* the directory of the series could not be read: its toast was shown and
\* the folders of the two other directories are listed
C30_Witness ==
    /\ loadPc = "done"
    /\ ~isLoading
    /\ unreadableRoots = {"series"}
    /\ scanErrors = {"series"}
    /\ toasts = "loadError"
    /\ folders = {p \in ScanPaths : Category(p) # "series"}
    /\ Cardinality(folders) = 2

(***************************************************************************)
(* Properties of the spawn of ffmpeg.                                      *)
(***************************************************************************)
\* C31: a generation whose ffmpeg could not be spawned is not reported as
\* an ordinary failed generation: when its invocation settles, the failure
\* of the acquisition of the binary is what is shown to the user.
C31_SpawnFailureLeadsToAcquisition ==
    [][\A c \in Generating :
        (/\ Settles(c)
         /\ OutputOf(c) \in DOMAIN genOutcome
         /\ genOutcome'[OutputOf(c)] = "error")
        => toasts' = "acquisitionFailed"]_vars

(***************************************************************************)
(* Properties of the ThumbnailQueue (mpv-launcher.tsx).                    *)
(***************************************************************************)
\* the generateThumbnail invocations running inside the queue
QueueRunning == {c \in CallsIn(checks) : c.pc \in {"qfind", "qgen"}}
NumQueueRunning == BagCardinality([c \in QueueRunning |-> CopiesIn(c, checks)])

\* the paths waiting in the queue
Waiting(q) == {q[i] : i \in 1..Len(q)}

\* C32: at most maxConcurrent = 2 generateThumbnail invocations run inside
\* the queue, processing equals their number and is never negative, and a
\* path waiting in the queue stays there until processNext moves it to the
\* running ones; with 2 running nothing leaves the queue.
C32_QueueBound ==
    /\ [](/\ processing \in 0..MaxConcurrent
          /\ processing = NumQueueRunning)
    /\ [][/\ \A p \in Waiting(queue) : p \in Waiting(queue') \/ p \in processingPaths'
          /\ processing = MaxConcurrent => Waiting(queue) \subseteq Waiting(queue')]_vars

\* two invocations run and a third request waits
C32_Witness ==
    /\ processing = MaxConcurrent
    /\ NumQueueRunning = MaxConcurrent
    /\ queue # <<>>

Stranded ==
    /\ queue # <<>>
    /\ processing = 0
    /\ TimerCall \notin CallsIn(checks)

\* C33: the queue is never stranded, every waiting request is eventually
\* taken by processNext, and every invocation that runs eventually ends.
C33_QueueProgress ==
    /\ []~Stranded
    /\ \A p \in Paths :
        /\ (p \in Waiting(queue)) ~> (\E c \in QueueRunning : c.path = p)
        /\ (\E c \in QueueRunning : c.path = p) ~> (p \notin processingPaths)

\* a request waits, one of the two slots has just been freed and the
\* processNext timer of the finished invocation is pending
C33_Witness ==
    /\ queue # <<>>
    /\ processing = MaxConcurrent - 1
    /\ TimerCall \in CallsIn(checks)

(***************************************************************************)
(* Properties of the events after a run has settled.                       *)
(***************************************************************************)
\* C35: an event that arrives after the promise of its run has settled (the
\* close event after the timeout was reported, the timer after the process
\* has closed) changes neither the reported outcome, nor the gate and the
\* queue counters, nor the thumbnails map and its stored record.
C35_LateEventChangesNothing ==
    [][\A f \in DOMAIN lateEvent :
        (lateEvent[f].kind # "none" /\ lateEvent'[f].kind = "none")
        => UNCHANGED <<genOutcome, activeGenerations, processingThumbnails, processing,
                       processingPaths, queue, thumbnails, lsThumbs, blobWrites>>]_vars

====
